---------------------------- MODULE Spec2Model ----------------------------
(***************************************************************************)
(* Kaon: value model, opcode tables, bytecode compiler and stack VM.       *)
(*                                                                         *)
(* Numbers are f64 in the source.  Here a Number is an exact rational      *)
(* n/d in lowest terms with d > 0, plus the IEEE specials +inf (1/0),      *)
(* -inf (-1/0) and NaN (0/0).  Rounding and the sign of zero are not       *)
(* represented.                                                            *)
(***************************************************************************)
EXTENDS Integers, Sequences, FiniteSets, TLC

\* ------------------------------------------------------------------ bounds

\* Number literals and pool constants range over 0..MaxNum.
MaxNum == 3
\* Literals of the nested (two-operator) programs range over 1..MaxNestNum.
MaxNestNum == 2

\* ------------------------------------------------------------------ f64

Abs(i) == IF i < 0 THEN -i ELSE i

Sgn(i) == IF i < 0 THEN -1 ELSE IF i > 0 THEN 1 ELSE 0

RECURSIVE GCD(_, _)
GCD(a, b) == IF b = 0 THEN a ELSE GCD(b, a % b)

\* The f64 with value n/d: lowest terms, d > 0; n/0 is an infinity or NaN.
F64(n, d) ==
    IF d = 0 THEN [n |-> Sgn(n), d |-> 0]
    ELSE LET g == GCD(Abs(n), Abs(d))
         IN  [n |-> (Sgn(d) * n) \div g, d |-> Abs(d) \div g]

F64NaN == [n |-> 0, d |-> 0]

IsNaN(x) == x.n = 0 /\ x.d = 0

IsInf(x) == x.n # 0 /\ x.d = 0

F64Neg(x) == [n |-> -x.n, d |-> x.d]

F64Add(x, y) ==
    IF IsNaN(x) \/ IsNaN(y) THEN F64NaN
    ELSE IF IsInf(x) /\ IsInf(y) THEN (IF x.n = y.n THEN x ELSE F64NaN)
    ELSE IF IsInf(x) THEN x
    ELSE IF IsInf(y) THEN y
    ELSE F64(x.n * y.d + y.n * x.d, x.d * y.d)

F64Sub(x, y) == F64Add(x, F64Neg(y))

F64Mul(x, y) ==
    IF IsNaN(x) \/ IsNaN(y) THEN F64NaN
    ELSE F64(x.n * y.n, x.d * y.d)

F64Div(x, y) ==
    IF IsNaN(x) \/ IsNaN(y) THEN F64NaN
    ELSE IF IsInf(x) /\ IsInf(y) THEN F64NaN
    ELSE IF IsInf(x) THEN [n |-> x.n * (IF y.n < 0 THEN -1 ELSE 1), d |-> 0]
    ELSE F64(x.n * y.d, x.d * y.n)

\* The integer part of a finite f64, rounded toward zero.
Trunc(x) == IF x.n >= 0 THEN x.n \div x.d ELSE -((-x.n) \div x.d)

\* Rust's % on f64 is fmod: the result has the sign of the dividend.
F64Rem(x, y) ==
    IF IsNaN(x) \/ IsNaN(y) \/ IsInf(x) \/ (y.n = 0) THEN F64NaN
    ELSE IF IsInf(y) THEN x
    ELSE F64Sub(x, F64Mul(y, F64(Trunc(F64Div(x, y)), 1)))

\* ------------------------------------------------------------------ Value

\* Number(f64); the payload is kept as the two fields n and d.
Number(x) == [t |-> "Number", n |-> x.n, d |-> x.d]

F64Of(v) == [n |-> v.n, d |-> v.d]

Num(i) == Number(F64(i, 1))

Boolean(b) == [t |-> "Boolean", b |-> b]

\* A String's payload is its sequence of characters.
String(s) == [t |-> "String", s |-> s]

List(items) == [t |-> "List", items |-> items]

Tuple(items) == [t |-> "Tuple", items |-> items]

Unit == [t |-> "Unit"]

Nil == [t |-> "Nil"]

\* Value::Map: the HashMap of a ValueMap, a function from keys to Values.
Map(d) == [t |-> "Map", data |-> d]

\* Value::NativeFun, by its name.
NativeFun(name) == [t |-> "NativeFun", name |-> name]

\* The outcome of a panicking host call (unreachable!(), expect(), an index
\* out of bounds) where the code would have produced a Value.
Panicked(why) == [t |-> "panic!", why |-> why]

IsPanic(v) == v.t = "panic!"

IsNumber(v) == v.t = "Number"

\* ------------------------------------------------- operators on Value

ValueAddReversed(lhs, rhs) ==
    IF lhs.t = "Number" /\ rhs.t = "Number" THEN Number(F64Add(F64Of(rhs), F64Of(lhs)))
    ELSE IF lhs.t = "String" /\ rhs.t = "String" THEN String(rhs.s \o lhs.s)
    ELSE IF lhs.t = "Tuple" /\ rhs.t = "Tuple" THEN Tuple(rhs.items \o lhs.items)
    ELSE Panicked("unreachable")

ValueAdd(lhs, rhs) ==
    IF lhs.t = "Number" /\ rhs.t = "Number" THEN Number(F64Add(F64Of(lhs), F64Of(rhs)))
    ELSE IF lhs.t = "String" /\ rhs.t = "String" THEN String(lhs.s \o rhs.s)
    ELSE IF lhs.t = "Tuple" /\ rhs.t = "Tuple" THEN Tuple(lhs.items \o rhs.items)
    ELSE Panicked("unreachable")

ValueSubSwapped(lhs, rhs) ==
    IF lhs.t = "Number" /\ rhs.t = "Number" THEN Number(F64Sub(F64Of(rhs), F64Of(lhs)))
    ELSE Panicked("unreachable")

ValueSub(lhs, rhs) ==
    IF lhs.t = "Number" /\ rhs.t = "Number" THEN Number(F64Sub(F64Of(lhs), F64Of(rhs)))
    ELSE Panicked("unreachable")

ValueMul(lhs, rhs) ==
    IF lhs.t = "Number" /\ rhs.t = "Number" THEN Number(F64Mul(F64Of(lhs), F64Of(rhs)))
    ELSE Panicked("unreachable")

\* rhs / lhs: the operands of Div exchanged.
ValueDivSwapped(lhs, rhs) ==
    IF lhs.t = "Number" /\ rhs.t = "Number" THEN Number(F64Div(F64Of(rhs), F64Of(lhs)))
    ELSE Panicked("unreachable")

ValueDiv(lhs, rhs) ==
    IF lhs.t = "Number" /\ rhs.t = "Number" THEN Number(F64Div(F64Of(lhs), F64Of(rhs)))
    ELSE Panicked("unreachable")

ValueRem(lhs, rhs) ==
    IF lhs.t = "Number" /\ rhs.t = "Number" THEN Number(F64Rem(F64Of(lhs), F64Of(rhs)))
    ELSE Panicked("unreachable")

ValueNeg(val) ==
    IF val.t = "Number" THEN Number(F64Neg(F64Of(val))) ELSE Panicked("unreachable")

ValueNot(val) ==
    IF val.t = "Boolean" THEN Boolean(~val.b) ELSE Boolean(FALSE)

\* f64 ==: NaN is equal to nothing.
F64Eq(x, y) == ~IsNaN(x) /\ ~IsNaN(y) /\ x = y

\* ValueMap == ValueMap
ValueMapEq(lhs, rhs) == FALSE

\* #[derive(PartialEq)] for Value: operands of different variants are unequal;
\* operands of one variant are compared by their payloads, a Vec element by
\* element, a ValueMap by its own ==, a NativeFun by its name.
RECURSIVE ValueEq(_, _)
ValueEq(lhs, rhs) ==
    IF lhs.t # rhs.t THEN FALSE
    ELSE CASE lhs.t = "Number" -> F64Eq(F64Of(lhs), F64Of(rhs))
           [] lhs.t = "Boolean" -> lhs.b = rhs.b
           [] lhs.t = "String" -> lhs.s = rhs.s
           [] lhs.t \in {"List", "Tuple"} ->
                  /\ Len(lhs.items) = Len(rhs.items)
                  /\ \A i \in 1..Len(lhs.items) : ValueEq(lhs.items[i], rhs.items[i])
           [] lhs.t = "Map" -> ValueMapEq(lhs.data, rhs.data)
           [] lhs.t = "NativeFun" -> lhs.name = rhs.name
           [] lhs.t \in {"Unit", "Nil"} -> TRUE

\* ------------------------------------------------------------------ Opcode

\* The variants of enum Opcode in declaration order; #[repr(u8)] numbers them
\* from 0.
OpcodeTable ==
    << "Const", "Add", "Sub", "Mul", "Div", "Mod", "Negate", "Equal",
       "NotEqual", "Gte", "Lte", "Gt", "Lt", "Not", "Or", "And", "DefGlobal",
       "SetGlobal", "GetGlobal", "LoadLocal", "SaveLocal", "Jump", "Jeq",
       "Print", "Call", "Del", "List", "Loop", "Halt" >>

\* `Opcode::X as u8`: the discriminant of the variant.
OpcodeAsU8(op) == (CHOOSE i \in 1..Len(OpcodeTable) : OpcodeTable[i] = op) - 1

OpcodeFromU8OffByOne(opcode) ==
    IF opcode >= 1 /\ opcode <= Len(OpcodeTable) THEN OpcodeTable[opcode]
    ELSE "undefined"

\* From<u8> for Opcode is a transmute: a byte that is no discriminant gives
\* an invalid enum value, which is undefined behaviour ("undefined" here; the
\* VM step that meets it chooses among the outcomes).
OpcodeFromU8(opcode) ==
    IF opcode < Len(OpcodeTable) THEN OpcodeTable[opcode + 1] ELSE "undefined"

BinaryOpcodes == {"Add", "Sub", "Mul", "Div", "Mod"}

UnaryOpcodes == {"Negate", "Not"}

\* ------------------------------------------------------------------ Stack

\* Stack::push
Push(stk, v) == Append(stk, v)

\* Stack::pop: Vec::pop().expect("Stack should not be empty")
Pop(stk) ==
    IF Len(stk) = 0
    THEN [value |-> Panicked("Stack should not be empty"), stack |-> stk]
    ELSE [value |-> stk[Len(stk)], stack |-> SubSeq(stk, 1, Len(stk) - 1)]

\* Stack::peek: self.stack[self.stack.len() - 1]
Peek(stk) ==
    IF Len(stk) = 0 THEN Panicked("index out of bounds") ELSE stk[Len(stk)]

\* ------------------------------------------------------------------ AST

\* Expr::Number, Expr::String, Expr::Boolean, Expr::Nil
ENumber(i) == [k |-> "Number", num |-> i]

EString(s) == [k |-> "String", str |-> s]

EBoolean(b) == [k |-> "Boolean", bool |-> b]

\* Expr::BinExpr(Box<BinExpr>, Span) with BinExpr {op, lhs, rhs}
EBin(op, lhs, rhs) == [k |-> "BinExpr", op |-> op, lhs |-> lhs, rhs |-> rhs]

\* Expr::UnaryExpr(Op, Box<Expr>, Span)
EUnary(op, expr) == [k |-> "UnaryExpr", op |-> op, expr |-> expr]

\* Expr::ParenExpr(Box<Expr>, Span)
EParen(expr) == [k |-> "ParenExpr", expr |-> expr]

\* The arithmetic variants of enum Op.
ArithOps == {"Add", "Subtract", "Multiply", "Divide", "Remainder"}

\* ------------------------------------------------------------------ Compiler

\* The byte the compiler emits for an opcode.  compile_number, compile_binary
\* and compile_unary pin Const = 0, Add = 1, Negate = 6, which are the enum's
\* discriminants, and the terminating Halt = 19.
HaltByteOfCompiler == 19

CompilerByte(op) == IF op = "Halt" THEN HaltByteOfCompiler ELSE OpcodeAsU8(op)

\* The opcode of a binary / unary operator of the tree.
BinOpcode(op) ==
    CASE op = "Add" -> "Add"
      [] op = "Subtract" -> "Sub"
      [] op = "Multiply" -> "Mul"
      [] op = "Divide" -> "Div"
      [] op = "Remainder" -> "Mod"

UnaryOpcode(op) == IF op = "Bang" THEN "Not" ELSE "Negate"

\* The constant a literal denotes.
LiteralValue(e) ==
    CASE e.k = "Number" -> Num(e.num)
      [] e.k = "String" -> String(e.str)
      [] e.k = "Boolean" -> Boolean(e.bool)

EmptyChunk == [opcodes |-> << >>, constants |-> << >>]

\* Pool insertion: an equal constant already in the pool is reused.
\* The index is 0-based, as in the byte stream.
AddConstant(chunk, v) ==
    IF \E i \in 1..Len(chunk.constants) : chunk.constants[i] = v
    THEN [chunk |-> chunk,
          idx |-> (CHOOSE i \in 1..Len(chunk.constants) :
                      /\ chunk.constants[i] = v
                      /\ \A j \in 1..(i - 1) : chunk.constants[j] # v) - 1]
    ELSE [chunk |-> [chunk EXCEPT !.constants = Append(@, v)],
          idx |-> Len(chunk.constants)]

EmitByte(chunk, b) == [chunk EXCEPT !.opcodes = Append(@, b)]

EmitOpcode(chunk, op) == EmitByte(chunk, CompilerByte(op))

EmitConst(chunk, v) ==
    LET r == AddConstant(chunk, v)
    IN  EmitByte(EmitOpcode(r.chunk, "Const"), r.idx)

RECURSIVE CompileExprLhsFirst(_, _)
CompileExprLhsFirst(e, chunk) ==
    CASE e.k = "BinExpr" ->
            EmitOpcode(CompileExprLhsFirst(e.rhs, CompileExprLhsFirst(e.lhs, chunk)),
                       BinOpcode(e.op))
      [] e.k = "UnaryExpr" ->
            EmitOpcode(CompileExprLhsFirst(e.expr, chunk), UnaryOpcode(e.op))
      [] e.k = "ParenExpr" -> CompileExprLhsFirst(e.expr, chunk)
      [] OTHER -> EmitConst(chunk, LiteralValue(e))

\* The expression visitor.  compile_binary pins the order of a binary
\* expression: `1 + 2` gives the pool [2, 1] loaded as Const 0, Const 1, so the
\* right operand is compiled first, then the left, then the operator.
RECURSIVE CompileExpr(_, _)
CompileExpr(e, chunk) ==
    CASE e.k = "BinExpr" ->
            EmitOpcode(CompileExpr(e.lhs, CompileExpr(e.rhs, chunk)),
                       BinOpcode(e.op))
      [] e.k = "UnaryExpr" ->
            EmitOpcode(CompileExpr(e.expr, chunk), UnaryOpcode(e.op))
      [] e.k = "ParenExpr" -> CompileExpr(e.expr, chunk)
      [] OTHER -> EmitConst(chunk, LiteralValue(e))

\* Compiler::run on a one-expression program: the expression, then Halt.
CompilerRun(e) == EmitOpcode(CompileExpr(e, EmptyChunk), "Halt")

\* ------------------------------------------------------------------ inputs

\* Source programs: one expression each.
Literals ==
    {ENumber(i) : i \in 0..MaxNum} \cup {EString(<<"x">>), EBoolean(TRUE)}

FlatPrograms ==
    Literals
    \cup {EBin(op, l, r) : op \in ArithOps, l \in Literals, r \in Literals}
    \cup {EUnary(op, l) : op \in {"Subtract", "Bang"}, l \in Literals}

NestLiterals == {ENumber(i) : i \in 1..MaxNestNum}

NestedPrograms ==
    {EBin(o1, EBin(o2, a, b), c) :
        o1 \in ArithOps, o2 \in ArithOps,
        a \in NestLiterals, b \in NestLiterals, c \in NestLiterals}
    \cup {EBin(o1, a, EBin(o2, b, c)) :
        o1 \in ArithOps, o2 \in ArithOps,
        a \in NestLiterals, b \in NestLiterals, c \in NestLiterals}

\* 5 * (10 - 3) - 2
PrecedenceScenario ==
    EBin("Subtract",
         EBin("Multiply", ENumber(5),
              EParen(EBin("Subtract", ENumber(10), ENumber(3)))),
         ENumber(2))

\* The sources of tests/test_compiler.rs: `123`, `1 + 2`, `-8`.
compile_number == ENumber(123)

compile_binary == EBin("Add", ENumber(1), ENumber(2))

compile_unary == EUnary("Subtract", ENumber(8))

CompilerTestSources == {compile_number, compile_binary, compile_unary}

SourcePrograms ==
    FlatPrograms \cup NestedPrograms \cup {PrecedenceScenario}
    \cup CompilerTestSources

\* Constants of hand-built chunks.
PoolValues ==
    {Num(i) : i \in 0..MaxNum}
    \cup { String(<<"a", "b">>), String(<<"c">>),
           Tuple(<<Num(1), Num(2)>>), Tuple(<<String(<<"x">>)>>),
           List(<<Num(1)>>), Boolean(TRUE), Boolean(FALSE), Nil, Unit }

\* new_chunk(opcodes, constants) of the VM tests: the bytes are written with
\* the VM's own table (`Opcode::X as u8`).
new_chunk(opcodes, constants) == [opcodes |-> opcodes, constants |-> constants]

\* The chunks of the VM tests, for every pool and index.
BinaryChunks ==
    {new_chunk(<<0, i, 0, j, OpcodeAsU8(op), OpcodeAsU8("Halt")>>, <<x, y>>) :
        i \in 0..1, j \in 0..1, op \in BinaryOpcodes,
        x \in PoolValues, y \in PoolValues}

UnaryChunks ==
    {new_chunk(<<0, 0, OpcodeAsU8(op), OpcodeAsU8("Halt")>>, <<x>>) :
        op \in UnaryOpcodes, x \in PoolValues}

LoadChunks ==
    {new_chunk(<<0, i, OpcodeAsU8("Halt")>>, <<x, y>>) :
        i \in 0..1, x \in PoolValues, y \in PoolValues}

\* Chunks no compiler run gives: an operator on an empty stack, a missing
\* Halt, a pool index past the pool, a cut operand, a byte that is no opcode,
\* a local load.
MalformedChunks ==
    {new_chunk(<<OpcodeAsU8(op), OpcodeAsU8("Halt")>>, << >>) :
        op \in BinaryOpcodes \cup UnaryOpcodes}
    \cup {new_chunk(<<0, 0, OpcodeAsU8(op), OpcodeAsU8("Halt")>>, <<Num(1)>>) :
        op \in BinaryOpcodes}
    \cup { new_chunk(<<0, 0>>, <<Num(1)>>),
           new_chunk(<<0, 1, OpcodeAsU8("Halt")>>, <<Num(1)>>),
           new_chunk(<<0>>, <<Num(1)>>),
           new_chunk(<<Len(OpcodeTable)>>, << >>),
           new_chunk(<<0, 0, OpcodeAsU8("LoadLocal"), 0, OpcodeAsU8("Halt")>>,
                     <<Num(1)>>),
           new_chunk(<<OpcodeAsU8("LoadLocal"), 0, OpcodeAsU8("Halt")>>, << >>) }

\* The chunks of tests/test_vm.rs.
opcode_load == new_chunk(<<0, 0, OpcodeAsU8("Halt")>>, <<Num(567)>>)

opcode_add ==
    new_chunk(<<0, 0, 0, 1, OpcodeAsU8("Add"), OpcodeAsU8("Halt")>>,
              <<Num(1), Num(2)>>)

opcode_sub ==
    new_chunk(<<0, 0, 0, 1, OpcodeAsU8("Sub"), OpcodeAsU8("Halt")>>,
              <<Num(2), Num(3)>>)

opcode_mul ==
    new_chunk(<<0, 0, 0, 1, OpcodeAsU8("Mul"), OpcodeAsU8("Halt")>>,
              <<Num(2), Num(3)>>)

opcode_div ==
    new_chunk(<<0, 0, 0, 1, OpcodeAsU8("Div"), OpcodeAsU8("Halt")>>,
              <<Num(2), Num(6)>>)

opcode_neg ==
    new_chunk(<<0, 0, OpcodeAsU8("Negate"), OpcodeAsU8("Halt")>>, <<Num(2)>>)

VmTestChunks ==
    {opcode_load, opcode_add, opcode_sub, opcode_mul, opcode_div, opcode_neg}

HandChunks ==
    BinaryChunks \cup UnaryChunks \cup LoadChunks \cup MalformedChunks
    \cup VmTestChunks

\* ------------------------------------------------------------------ state

VARIABLES
    program,    \* the input: a source expression or a hand-built chunk
    phase,      \* "input", "loaded", "running", "done"
    chunk,      \* the ByteCode being run: opcodes and constants
    ip,         \* offset of the next byte of chunk.opcodes (0-based)
    stack,      \* the value stack
    outcome,    \* "none" while running; "Ok", "Panic" or "Undefined" at the end
    trap,       \* the panic message
    prev,       \* the instruction executed last and the stack it found
    applied,    \* an operator of Value and the operands it is applied to
    result,     \* what the application gave
    source,     \* Lexer: the source text, a sequence of characters
    previous,   \* Lexer: byte offset where the token being read starts
    current,    \* Lexer: byte offset of the next character
    tokens,     \* Lexer::tokenize: the tokens pushed so far
    lexed,      \* what tokenize returned: "none" yet, "Ok", or an error
    data,       \* ValueMap: the HashMap from key to Value
    inserted,   \* the keys of the map in the order of their first insertion
    shown,      \* per run, the text Display gave for the map
    function,   \* the Function a closure is made of
    closure,    \* the Closure made, if any: a sequence of at most one
    holders,    \* the Values held in two variables or stack slots
    written,    \* the add_field call made last: holder, name and value
    got,        \* the get_field call made last, and what it returned
    locals,     \* the stack slots of the enclosing call frame
    returned,   \* whether the enclosing call frame has returned
    open,       \* the VM's open upvalues, by descending stack location
    closures,   \* the two closures made in the enclosing frame, if made
    stored,     \* the store made last through a capture: closure and value
    slots,      \* Stack: the Vec of slots
    taken       \* what the pop or peek made last returned

vmVars == <<program, phase, chunk, ip, stack, outcome, trap, prev>>

opVars == <<applied, result>>

lexVars == <<source, previous, current, tokens, lexed>>

mapVars == <<data, inserted, shown>>

cloVars == <<function, closure>>

insVars == <<holders, written, got>>

upVars == <<locals, returned, open, closures, stored>>

stkVars == <<slots, taken>>

vars == <<vmVars, opVars, lexVars, mapVars, cloVars, insVars, upVars, stkVars>>

\* Everything but the state of one component.
exceptVm == <<opVars, lexVars, mapVars, cloVars, insVars, upVars, stkVars>>

exceptOps == <<vmVars, lexVars, mapVars, cloVars, insVars, upVars, stkVars>>

exceptLex == <<vmVars, opVars, mapVars, cloVars, insVars, upVars, stkVars>>

exceptMap == <<vmVars, opVars, lexVars, cloVars, insVars, upVars, stkVars>>

exceptClo == <<vmVars, opVars, lexVars, mapVars, insVars, upVars, stkVars>>

exceptIns == <<vmVars, opVars, lexVars, mapVars, cloVars, upVars, stkVars>>

exceptUp == <<vmVars, opVars, lexVars, mapVars, cloVars, insVars, stkVars>>

exceptStk == <<vmVars, opVars, lexVars, mapVars, cloVars, insVars, upVars>>

\* No operator application under way / no result yet.
NoApply == [op |-> "none"]

Pending == [t |-> "pending"]

OpsIdle == applied = NoApply /\ result = Pending

NoPrev == [op |-> "none", before |-> << >>]

\* The VM is idle while another component is exercised on its own.
VmIdle ==
    /\ program = [kind |-> "none"]
    /\ phase = "idle"
    /\ chunk = EmptyChunk
    /\ ip = 0
    /\ stack = << >>
    /\ outcome = "none"
    /\ trap = ""
    /\ prev = NoPrev

\* No lexer, map, closure or instance under way.
LexIdle ==
    /\ source = << >>
    /\ previous = 0
    /\ current = 0
    /\ tokens = << >>
    /\ lexed = [kind |-> "idle"]

MapIdle == data = << >> /\ inserted = << >> /\ shown = << >>

CloIdle == function = [name |-> "none"] /\ closure = << >>

InsIdle == holders = << >> /\ written = [holder |-> 0] /\ got = Pending

\* No enclosing frame with closures, and no Stack, under way.
UpIdle ==
    /\ locals = << >>
    /\ returned = FALSE
    /\ open = << >>
    /\ closures = << >>
    /\ stored = [closure |-> 0]

StkIdle == slots = << >> /\ taken = Pending

\* Every component but the VM, the operators, the lexer, the map, the
\* closure and the instance is idle.
RestIdle == UpIdle /\ StkIdle

VmInit ==
    /\ program \in
          {[kind |-> "source", ast |-> e] : e \in SourcePrograms}
          \cup {[kind |-> "chunk", code |-> c] : c \in HandChunks}
    /\ phase = "input"
    /\ chunk = EmptyChunk
    /\ ip = 0
    /\ stack = << >>
    /\ outcome = "none"
    /\ trap = ""
    /\ prev = NoPrev

\* compile(source): the compiler's chunk for the program.
Compile ==
    /\ UNCHANGED exceptVm
    /\ phase = "input"
    /\ program.kind = "source"
    /\ chunk' = CompilerRun(program.ast)
    /\ phase' = "loaded"
    /\ UNCHANGED <<program, ip, stack, outcome, trap, prev>>

\* A chunk put together by hand, as the VM tests do.
NewChunk ==
    /\ UNCHANGED exceptVm
    /\ phase = "input"
    /\ program.kind = "chunk"
    /\ chunk' = program.code
    /\ phase' = "loaded"
    /\ UNCHANGED <<program, ip, stack, outcome, trap, prev>>

\* Vm::interpret: start at the first byte with an empty stack.
Interpret ==
    /\ UNCHANGED exceptVm
    /\ phase = "loaded"
    /\ phase' = "running"
    /\ ip' = 0
    /\ stack' = << >>
    /\ UNCHANGED <<program, chunk, outcome, trap, prev>>

\* ------------------------------------------------------------------ Vm

Fetching == phase = "running" /\ ip < Len(chunk.opcodes)

CurOp == OpcodeFromU8(chunk.opcodes[ip + 1])

\* The run ends in a host panic.
Panic(why, stk) ==
    /\ phase' = "done"
    /\ outcome' = "Panic"
    /\ trap' = why
    /\ stack' = stk
    /\ UNCHANGED <<program, chunk, ip>>

\* The operator of Value an arithmetic opcode applies.
BinaryOp(op, lhs, rhs) ==
    CASE op = "Add" -> ValueAdd(lhs, rhs)
      [] op = "Sub" -> ValueSub(lhs, rhs)
      [] op = "Mul" -> ValueMul(lhs, rhs)
      [] op = "Div" -> ValueDiv(lhs, rhs)
      [] op = "Mod" -> ValueRem(lhs, rhs)

UnaryOp(op, val) == IF op = "Negate" THEN ValueNeg(val) ELSE ValueNot(val)

\* The dispatch loop indexes the opcode stream at ip: past the end it panics.
FetchPastEnd ==
    /\ UNCHANGED exceptVm
    /\ phase = "running"
    /\ ip >= Len(chunk.opcodes)
    /\ prev' = [op |-> "fetch", before |-> stack]
    /\ Panic("index out of bounds", stack)

\* Const idx: push constants[idx].
ExecConst ==
    /\ UNCHANGED exceptVm
    /\ Fetching
    /\ CurOp = "Const"
    /\ prev' = [op |-> "Const", before |-> stack]
    /\ IF ip + 1 >= Len(chunk.opcodes)
       THEN Panic("index out of bounds", stack)
       ELSE LET idx == chunk.opcodes[ip + 2]
            IN  IF idx >= Len(chunk.constants)
                THEN Panic("index out of bounds", stack)
                ELSE /\ stack' = Push(stack, chunk.constants[idx + 1])
                     /\ ip' = ip + 2
                     /\ UNCHANGED <<program, phase, chunk, outcome, trap>>

\* Add, Sub, Mul, Div, Mod: the value popped first is the left operand, the
\* value popped second the right one (opcode_sub: pool [2, 3], Const 0,
\* Const 1, Sub leaves 1).
ExecBinary ==
    /\ UNCHANGED exceptVm
    /\ Fetching
    /\ CurOp \in BinaryOpcodes
    /\ prev' = [op |-> CurOp, before |-> stack]
    /\ LET p1 == Pop(stack)
           p2 == Pop(p1.stack)
           lhs == p1.value
           rhs == p2.value
       IN  IF IsPanic(lhs) THEN Panic(lhs.why, p1.stack)
           ELSE IF IsPanic(rhs) THEN Panic(rhs.why, p2.stack)
           ELSE LET r == BinaryOp(CurOp, lhs, rhs)
                IN  IF IsPanic(r) THEN Panic(r.why, p2.stack)
                    ELSE /\ stack' = Push(p2.stack, r)
                         /\ ip' = ip + 1
                         /\ UNCHANGED <<program, phase, chunk, outcome, trap>>

\* Negate, Not: pop the operand, push the result.
ExecUnary ==
    /\ UNCHANGED exceptVm
    /\ Fetching
    /\ CurOp \in UnaryOpcodes
    /\ prev' = [op |-> CurOp, before |-> stack]
    /\ LET p1 == Pop(stack)
       IN  IF IsPanic(p1.value) THEN Panic(p1.value.why, p1.stack)
           ELSE LET r == UnaryOp(CurOp, p1.value)
                IN  IF IsPanic(r) THEN Panic(r.why, p1.stack)
                    ELSE /\ stack' = Push(p1.stack, r)
                         /\ ip' = ip + 1
                         /\ UNCHANGED <<program, phase, chunk, outcome, trap>>

\* LoadLocal slot: push stack[base + slot]; the top-level frame has base 0.
ExecLoadLocal ==
    /\ UNCHANGED exceptVm
    /\ Fetching
    /\ CurOp = "LoadLocal"
    /\ prev' = [op |-> "LoadLocal", before |-> stack]
    /\ IF ip + 1 >= Len(chunk.opcodes)
       THEN Panic("index out of bounds", stack)
       ELSE LET slot == chunk.opcodes[ip + 2]
            IN  IF slot >= Len(stack)
                THEN Panic("index out of bounds", stack)
                ELSE /\ stack' = Push(stack, stack[slot + 1])
                     /\ ip' = ip + 2
                     /\ UNCHANGED <<program, phase, chunk, outcome, trap>>

\* Halt: stop; interpret returns Ok.
ExecHalt ==
    /\ UNCHANGED exceptVm
    /\ Fetching
    /\ CurOp = "Halt"
    /\ prev' = [op |-> "Halt", before |-> stack]
    /\ phase' = "done"
    /\ outcome' = "Ok"
    /\ UNCHANGED <<program, chunk, ip, stack, trap>>

\* A byte that is no discriminant of Opcode: the transmute is undefined
\* behaviour, so the build may stop as if at Halt, abort, or do anything else.
ExecUndefined ==
    /\ UNCHANGED exceptVm
    /\ Fetching
    /\ CurOp = "undefined"
    /\ prev' = [op |-> "undefined", before |-> stack]
    /\ phase' = "done"
    /\ outcome' \in {"Ok", "Panic", "Undefined"}
    /\ trap' = "invalid enum value"
    /\ UNCHANGED <<program, chunk, ip, stack>>

Next ==
    \/ Compile
    \/ NewChunk
    \/ Interpret
    \/ FetchPastEnd
    \/ ExecConst
    \/ ExecBinary
    \/ ExecUnary
    \/ ExecLoadLocal
    \/ ExecHalt
    \/ ExecUndefined

Init == VmInit /\ OpsIdle /\ LexIdle /\ MapIdle /\ CloIdle /\ InsIdle /\ RestIdle

Spec == Init /\ [][Next]_vars

TypeOK ==
    /\ phase \in {"idle", "input", "loaded", "running", "done"}
    /\ outcome \in {"none", "Ok", "Panic", "Undefined"}
    /\ (outcome = "none") = (phase # "done")
    /\ ip \in 0..Len(chunk.opcodes)

\* ------------------------------------------------- operators, applied alone

\* The operands == is applied to: the pool values, and lists, tuples and maps
\* with lists and maps inside.
EqOperands ==
    PoolValues
    \cup { Map(<< >>),
           Map([k \in {<<"a">>} |-> Num(1)]),
           Map([k \in {<<"a">>} |-> Num(2)]),
           Map([k \in {<<"a">>, <<"b">>} |-> String(k)]),
           Map([k \in {<<"a">>} |-> Map(<< >>)]),
           List(<<Num(1), Num(2)>>),
           List(<<List(<<Num(1)>>)>>),
           List(<<Map([k \in {<<"a">>} |-> Num(1)])>>),
           Tuple(<<Num(1), Num(3)>>),
           Tuple(<<Num(1)>>),
           NativeFun(<<"f">>),
           Number(F64NaN) }

OpsInit ==
    /\ applied \in
          {[op |-> op, lhs |-> l, rhs |-> r] :
              op \in BinaryOpcodes, l \in PoolValues, r \in PoolValues}
          \cup {[op |-> op, val |-> v] : op \in UnaryOpcodes, v \in PoolValues}
          \cup {[op |-> "Equal", lhs |-> l, rhs |-> r] :
                  l \in EqOperands, r \in EqOperands}
    /\ result = Pending
    /\ VmIdle /\ LexIdle /\ MapIdle /\ CloIdle /\ InsIdle /\ RestIdle

\* lhs + rhs, lhs - rhs, lhs * rhs, lhs / rhs, lhs % rhs
ApplyBinary ==
    /\ UNCHANGED exceptOps
    /\ result = Pending
    /\ applied.op \in BinaryOpcodes
    /\ result' = BinaryOp(applied.op, applied.lhs, applied.rhs)
    /\ UNCHANGED applied

\* -val, !val
ApplyUnary ==
    /\ UNCHANGED exceptOps
    /\ result = Pending
    /\ applied.op \in UnaryOpcodes
    /\ result' = UnaryOp(applied.op, applied.val)
    /\ UNCHANGED applied

\* lhs == rhs
ApplyEqual ==
    /\ UNCHANGED exceptOps
    /\ result = Pending
    /\ applied.op = "Equal"
    /\ result' = Boolean(ValueEq(applied.lhs, applied.rhs))
    /\ UNCHANGED applied

OpsNext ==
    \/ ApplyBinary
    \/ ApplyUnary
    \/ ApplyEqual

SpecOps == OpsInit /\ [][OpsNext]_vars

\* ------------------------------------------------- reference semantics

\* a op b on f64, written out for the statements below.
RefArith(op, a, b) ==
    CASE op = "Add" -> F64Add(a, b)
      [] op = "Sub" -> F64Sub(a, b)
      [] op = "Mul" -> F64Mul(a, b)
      [] op = "Div" -> F64Div(a, b)
      [] op = "Mod" -> F64Rem(a, b)

\* a op b on values, for the operand shapes the language defines.
RefBinary(op, a, b) ==
    IF a.t = "Number" /\ b.t = "Number"
    THEN Number(RefArith(op, F64Of(a), F64Of(b)))
    ELSE IF op = "Add" /\ a.t = "String" /\ b.t = "String"
    THEN String(a.s \o b.s)
    ELSE IF op = "Add" /\ a.t = "Tuple" /\ b.t = "Tuple"
    THEN Tuple(a.items \o b.items)
    ELSE Panicked("not defined")

\* An expression built of number literals only.
RECURSIVE IsNumeric(_)
IsNumeric(e) ==
    CASE e.k = "Number" -> TRUE
      [] e.k = "BinExpr" -> IsNumeric(e.lhs) /\ IsNumeric(e.rhs)
      [] e.k = "UnaryExpr" -> e.op = "Subtract" /\ IsNumeric(e.expr)
      [] e.k = "ParenExpr" -> IsNumeric(e.expr)
      [] OTHER -> FALSE

\* The value the source text of a numeric expression denotes.
RECURSIVE Eval(_)
Eval(e) ==
    CASE e.k = "Number" -> F64(e.num, 1)
      [] e.k = "BinExpr" -> RefArith(BinOpcode(e.op), Eval(e.lhs), Eval(e.rhs))
      [] e.k = "UnaryExpr" -> F64Neg(Eval(e.expr))
      [] e.k = "ParenExpr" -> Eval(e.expr)

\* The run of a compiled program has executed the whole expression: it stands
\* at the terminating byte, or it has stopped.
AtEndOfCompiled ==
    /\ program.kind = "source"
    /\ \/ phase = "done"
       \/ phase = "running" /\ ip = Len(chunk.opcodes) - 1

\* `a op b` for number literals a and b.
IsLiteralBinary(e) ==
    e.k = "BinExpr" /\ e.lhs.k = "Number" /\ e.rhs.k = "Number"

\* ------------------------------------------------------------------ C1

BinaryExecuted == phase = "running" /\ prev.op \in BinaryOpcodes

PushedLast == prev.before[Len(prev.before)]

PushedBefore == prev.before[Len(prev.before) - 1]

\* C2 as stated: the opcode pushes (pushed before) op (pushed last), and the
\* stack is one shorter.
C2_PopBThenA ==
    BinaryExecuted =>
        /\ Peek(stack) = RefBinary(prev.op, PushedBefore, PushedLast)
        /\ Len(stack) = Len(prev.before) - 1

\* C2 amended: the value pushed last is the left operand and the value pushed
\* before it the right one; the opcode replaces the two by
\* (pushed last) op (pushed before), so the stack is one shorter and the
\* values below are untouched.
C2_LeftOperandOnTop ==
    BinaryExecuted =>
        /\ Peek(stack) = RefBinary(prev.op, PushedLast, PushedBefore)
        /\ Len(stack) = Len(prev.before) - 1
        /\ SubSeq(stack, 1, Len(stack) - 1)
              = SubSeq(prev.before, 1, Len(prev.before) - 2)

\* push 2; push 3; Sub has run and left 3 - 2.
C2_Witness ==
    /\ BinaryExecuted
    /\ prev.op = "Sub"
    /\ PushedBefore = Num(2)
    /\ PushedLast = Num(3)
    /\ Peek(stack) = Num(1)

\* ------------------------------------------------------------------ C3

\* The chunk `Const i; Const j; OP; Halt` with OP of ops, valid indices and
\* number constants.
IsConstConstOp(c, ops) ==
    /\ Len(c.opcodes) = 6
    /\ c.opcodes[1] = OpcodeAsU8("Const")
    /\ c.opcodes[3] = OpcodeAsU8("Const")
    /\ \E op \in ops : c.opcodes[5] = OpcodeAsU8(op)
    /\ c.opcodes[6] = OpcodeAsU8("Halt")
    /\ c.opcodes[2] < Len(c.constants)
    /\ c.opcodes[4] < Len(c.constants)
    /\ \A n \in 1..Len(c.constants) : IsNumber(c.constants[n])

\* C3: interpreting `Const i; Const j; OP; Halt` with number constants and OP
\* Sub or Div ends Ok with constants[j] OP constants[i] on top; the pool [2, 3]
\* with Sub gives 1 and the pool [2, 6] with Div gives 3.
C3_LastPushedIsLeft ==
    /\ program.kind = "chunk" /\ phase = "done"
       /\ IsConstConstOp(program.code, {"Sub", "Div"}) =>
            /\ outcome = "Ok"
            /\ Peek(stack) =
                  Number(RefArith(OpcodeTable[program.code.opcodes[5] + 1],
                      F64Of(program.code.constants[program.code.opcodes[4] + 1]),
                      F64Of(program.code.constants[program.code.opcodes[2] + 1])))
    /\ program.kind = "chunk" /\ phase = "done" /\ program.code = opcode_sub =>
            Peek(stack) = Num(1)
    /\ program.kind = "chunk" /\ phase = "done" /\ program.code = opcode_div =>
            Peek(stack) = Num(3)

\* The chunk of opcode_div has run and 3 is on top.
C3_Witness ==
    /\ program.kind = "chunk"
    /\ program.code = opcode_div
    /\ phase = "done"
    /\ outcome = "Ok"
    /\ Peek(stack) = Num(3)

\* ------------------------------------------------------------------ C4

\* The instructions of a compiled chunk from byte i on, read with the
\* compiler's encoding: <<"Const", value>> for a constant load, <<name>> for
\* an opcode without operand.
RECURSIVE Listing(_, _)
Listing(c, i) ==
    IF i > Len(c.opcodes) THEN << >>
    ELSE IF c.opcodes[i] = CompilerByte("Const")
    THEN <<(<<"Const", c.constants[c.opcodes[i + 1] + 1]>>)>> \o Listing(c, i + 2)
    ELSE IF c.opcodes[i] = CompilerByte("Halt")
    THEN <<(<<"Halt">>)>> \o Listing(c, i + 1)
    ELSE <<(<<OpcodeTable[c.opcodes[i] + 1]>>)>> \o Listing(c, i + 1)

\* The instructions of an expression with the left operand's code first.
RECURSIVE LhsFirstCode(_)
LhsFirstCode(e) ==
    CASE e.k = "BinExpr" ->
             LhsFirstCode(e.lhs) \o LhsFirstCode(e.rhs) \o <<(<<BinOpcode(e.op)>>)>>
      [] e.k = "UnaryExpr" -> LhsFirstCode(e.expr) \o <<(<<UnaryOpcode(e.op)>>)>>
      [] e.k = "ParenExpr" -> LhsFirstCode(e.expr)
      [] OTHER -> <<(<<"Const", LiteralValue(e)>>)>>

\* The instructions of an expression with the right operand's code first.
RECURSIVE RhsFirstCode(_)
RhsFirstCode(e) ==
    CASE e.k = "BinExpr" ->
             RhsFirstCode(e.rhs) \o RhsFirstCode(e.lhs) \o <<(<<BinOpcode(e.op)>>)>>
      [] e.k = "UnaryExpr" -> RhsFirstCode(e.expr) \o <<(<<UnaryOpcode(e.op)>>)>>
      [] e.k = "ParenExpr" -> RhsFirstCode(e.expr)
      [] OTHER -> <<(<<"Const", LiteralValue(e)>>)>>

\* A source program has been compiled.
Compiled == program.kind = "source" /\ phase # "input"

\* C4 as stated: the code of `lhs op rhs` is the code of lhs, then the code of
\* rhs, then the opcode of op.
C4_LhsCodeFirst ==
    Compiled => Listing(chunk, 1) = LhsFirstCode(program.ast) \o <<(<<"Halt">>)>>

\* C4 amended: for every binary expression `lhs op rhs` the compiler emits the
\* complete code of rhs first, then the complete code of lhs, then the single
\* opcode of op; no instruction of lhs precedes an instruction of rhs.
C4_RhsCodeFirst ==
    Compiled => Listing(chunk, 1) = RhsFirstCode(program.ast) \o <<(<<"Halt">>)>>

\* `1 + 2` has been compiled: the load of 2 comes first, then the load of 1,
\* then Add.
C4_Witness ==
    /\ Compiled
    /\ program.ast = compile_binary
    /\ Listing(chunk, 1)
          = << <<"Const", Num(2)>>, <<"Const", Num(1)>>, <<"Add">>, <<"Halt">> >>

\* ------------------------------------------------------------------ C5

\* C5: compiling `a op b` for distinct number literals a and b gives exactly
\* the bytes [Const, 0, Const, 1, op, Halt] (in the compiler's encoding) and
\* the pool [b, a]: the right operand is in slot 0 and loaded first, the left
\* operand in slot 1 and loaded second.
C5_BinaryLiteralChunk ==
    Compiled /\ IsLiteralBinary(program.ast)
             /\ program.ast.lhs.num # program.ast.rhs.num =>
        /\ chunk.opcodes = <<CompilerByte("Const"), 0, CompilerByte("Const"), 1,
                             CompilerByte(BinOpcode(program.ast.op)),
                             CompilerByte("Halt")>>
        /\ chunk.constants = <<Num(program.ast.rhs.num), Num(program.ast.lhs.num)>>

\* `1 + 2` has been compiled to [0, 0, 0, 1, 1, 19] with pool [2, 1].
C5_Witness ==
    /\ Compiled
    /\ program.ast = compile_binary
    /\ chunk.opcodes = <<0, 0, 0, 1, 1, 19>>
    /\ chunk.constants = <<Num(2), Num(1)>>

\* ------------------------------------------------------------------ C6

\* C6 as stated: every byte the compiler emits for an opcode is decoded by the
\* VM as that opcode; the last byte of a compiled chunk is the VM's Halt, and
\* the run of a compiled chunk stops by executing Halt at that byte.
C6_OneEncoding ==
    Compiled =>
        /\ \A op \in {OpcodeTable[n] : n \in 1..Len(OpcodeTable)} :
                OpcodeFromU8(CompilerByte(op)) = op
        /\ chunk.opcodes[Len(chunk.opcodes)] = OpcodeAsU8("Halt")
        /\ phase = "done" => prev.op = "Halt" /\ ip = Len(chunk.opcodes) - 1

\* ------------------------------------------------------------------ C7

\* The chunk `Const i; Halt` with i a valid pool index.
IsConstHalt(c) ==
    /\ Len(c.opcodes) = 3
    /\ c.opcodes[1] = OpcodeAsU8("Const")
    /\ c.opcodes[2] < Len(c.constants)
    /\ c.opcodes[3] = OpcodeAsU8("Halt")

\* C7: interpreting `Const i; Halt` with i a valid pool index returns Ok with
\* constants[i] as the only value of the stack; Const pushes exactly the
\* addressed constant, and Halt, wherever it is executed, leaves the stack as
\* it was.
C7_ConstThenHalt ==
    /\ program.kind = "chunk" /\ IsConstHalt(program.code) /\ phase = "done" =>
            /\ outcome = "Ok"
            /\ stack = <<program.code.constants[program.code.opcodes[2] + 1]>>
    /\ program.kind = "chunk" /\ IsConstHalt(program.code)
       /\ phase = "running" /\ prev.op = "Const" =>
            stack = Append(prev.before,
                           program.code.constants[program.code.opcodes[2] + 1])
    /\ prev.op = "Halt" => phase = "done" /\ stack = prev.before

\* The chunk of opcode_load has run: Ok, with 567 on top.
C7_Witness ==
    /\ program.kind = "chunk"
    /\ program.code = opcode_load
    /\ phase = "done"
    /\ outcome = "Ok"
    /\ prev.op = "Halt"
    /\ Peek(stack) = Num(567)

\* ------------------------------------------------------------------ C8

\* An operator has been applied to its operands.
Applied(ops) == result # Pending /\ applied.op \in ops

\* The operand shapes of a binary operator application.
BothOf(shape) == applied.lhs.t = shape /\ applied.rhs.t = shape

\* C8: Add is defined on exactly three operand shapes: two Numbers give the
\* numeric sum, two Strings the left string followed by the right one, two
\* Tuples the left tuple's elements in order followed by the right tuple's; on
\* every other pair of operands Add has no value.
C8_AddShapes ==
    Applied({"Add"}) =>
        CASE BothOf("Number") ->
                 result = Number(F64(applied.lhs.n * applied.rhs.d
                                       + applied.rhs.n * applied.lhs.d,
                                     applied.lhs.d * applied.rhs.d))
          [] BothOf("String") ->
                 /\ result.t = "String"
                 /\ Len(result.s) = Len(applied.lhs.s) + Len(applied.rhs.s)
                 /\ SubSeq(result.s, 1, Len(applied.lhs.s)) = applied.lhs.s
                 /\ SubSeq(result.s, Len(applied.lhs.s) + 1, Len(result.s))
                       = applied.rhs.s
          [] BothOf("Tuple") ->
                 /\ result.t = "Tuple"
                 /\ Len(result.items)
                       = Len(applied.lhs.items) + Len(applied.rhs.items)
                 /\ SubSeq(result.items, 1, Len(applied.lhs.items))
                       = applied.lhs.items
                 /\ SubSeq(result.items, Len(applied.lhs.items) + 1,
                           Len(result.items)) = applied.rhs.items
          [] OTHER -> IsPanic(result)

\* "ab" + "c" has been applied and gave "abc".
C8_Witness ==
    /\ Applied({"Add"})
    /\ applied.lhs = String(<<"a", "b">>)
    /\ applied.rhs = String(<<"c">>)
    /\ result = String(<<"a", "b", "c">>)

\* ------------------------------------------------------------------ C9

\* The operands of the applied operator are a combination it is defined on.
DefinedCombination ==
    IF applied.op = "Negate" THEN applied.val.t = "Number"
    ELSE \/ BothOf("Number")
         \/ applied.op = "Add" /\ (BothOf("String") \/ BothOf("Tuple"))

\* C9 as stated: Add, Sub, Mul, Div, Mod or Negate applied to a combination
\* of operands other than the defined ones gives a TypeError; it never
\* reaches a panic.
C9_TypeErrorNotPanic ==
    Applied(BinaryOpcodes \cup {"Negate"}) /\ ~DefinedCombination =>
        /\ ~IsPanic(result)
        /\ result.t = "TypeError"

\* ------------------------------------------------------------------ C10

\* C10 as stated: the run of a compiled program ends with a value or with a
\* RuntimeError; no state of it is a host panic.
C10_NoHostPanic ==
    Compiled =>
        /\ outcome # "Panic"
        /\ phase = "done" => outcome \in {"Ok", "RuntimeError"}

\* ------------------------------------------------------------- ValueMap

\* The decimal digits of a natural number.
RECURSIVE Decimal(_)
Decimal(i) ==
    IF i < 10
    THEN <<(<<"0", "1", "2", "3", "4", "5", "6", "7", "8", "9">>)[i + 1]>>
    ELSE Decimal(i \div 10) \o Decimal(i % 10)

\* Display of Value::Number: a number without fractional part is written as
\* the i64 it converts to (the numbers of the model are of this kind).
DisplayNumber(v) ==
    CASE v.d = 1 /\ v.n >= 0 -> Decimal(v.n)
      [] v.d = 1 /\ v.n < 0 -> <<"-">> \o Decimal(-v.n)
      [] v.d = 0 /\ v.n = 1 -> <<"i", "n", "f">>
      [] v.d = 0 /\ v.n = -1 -> <<"-", "i", "n", "f">>
      [] v.d = 0 /\ v.n = 0 -> <<"N", "a", "N">>

\* What formatting gives: a text (a sequence of characters) or a panic.
Text(chars) == [t |-> "text", chars |-> chars]

\* The text Display builds for a map whose HashMap iterates in `order`:
\* "{ ", then "key: value, " per entry with the last two characters removed,
\* then " }".  With no entry there are no two characters to remove:
\* `string.len() - 2` underflows and replace_range panics.
RECURSIVE DisplayValue(_)
RECURSIVE DisplayMap(_, _)
RECURSIVE DisplayPairs(_, _)
DisplayPairs(d, order) ==
    IF order = << >> THEN Text(<< >>)
    ELSE LET val == DisplayValue(d[Head(order)])
             rest == DisplayPairs(d, Tail(order))
         IN  IF IsPanic(val) THEN val
             ELSE IF IsPanic(rest) THEN rest
             ELSE Text(Head(order) \o <<":", " ">> \o val.chars \o <<",", " ">>
                          \o rest.chars)

DisplayMap(d, order) ==
    LET string == DisplayPairs(d, order)
    IN  IF IsPanic(string) THEN string
        ELSE IF Len(string.chars) < 2
        THEN Panicked("attempt to subtract with overflow")
        ELSE Text(<<"{", " ">>
                    \o SubSeq(string.chars, 1, Len(string.chars) - 2)
                    \o <<" ", "}">>)

\* An order in which a HashMap may iterate its keys: any.
Orders(keys) ==
    {o \in [1..Cardinality(keys) -> keys] :
        \A i, j \in 1..Cardinality(keys) : o[i] = o[j] => i = j}

\* Display for Value.  A map inside a map has at most one entry here, so its
\* iteration order is the only one there is.
DisplayValue(v) ==
    CASE v.t = "Number" -> Text(DisplayNumber(v))
      [] v.t = "Boolean" -> Text(IF v.b THEN <<"t", "r", "u", "e">>
                                        ELSE <<"f", "a", "l", "s", "e">>)
      [] v.t = "String" -> Text(v.s)
      [] v.t = "Unit" -> Text(<<"(", ")">>)
      [] v.t = "Nil" -> Text(<<"n", "i", "l">>)
      [] v.t = "NativeFun" ->
             Text(<<"<", "n", "a", "t", "i", "v", "e", " ">> \o v.name \o <<">">>)
      [] v.t = "Map" ->
             DisplayMap(v.data, CHOOSE o \in Orders(DOMAIN v.data) : TRUE)

\* ValueMap::new
ValueMapNew == << >>

\* HashMap::insert
HashMapInsert(d, id, v) ==
    [k \in DOMAIN d \cup {id} |-> IF k = id THEN v ELSE d[k]]

\* Keys and values of the maps built.
MapKeys == {<<"a">>, <<"b">>, <<"c">>}

InnerMaps == {ValueMapNew, HashMapInsert(ValueMapNew, <<"x">>, Num(1))}

MapConstants == {Num(1), Nil}

NativeFuns == {<<"f">>}

\* The runs of the program that builds the map and prints it.
Runs == {1, 2}

MapInit ==
    /\ data = ValueMapNew
    /\ inserted = << >>
    /\ shown = [r \in Runs |-> Pending]
    /\ VmIdle /\ OpsIdle /\ LexIdle /\ CloIdle /\ InsIdle /\ RestIdle

NothingShown == \A r \in Runs : shown[r] = Pending

\* The key joins the insertion history when it is inserted for the first time.
FirstInsertion(id) ==
    IF id \in DOMAIN data THEN inserted ELSE Append(inserted, id)

\* ValueMap::insert_fun
insert_fun ==
    /\ UNCHANGED exceptMap
    /\ NothingShown
    /\ \E id \in MapKeys, fun \in NativeFuns :
          /\ data' = HashMapInsert(data, id, NativeFun(fun))
          /\ inserted' = FirstInsertion(id)
    /\ UNCHANGED shown

\* ValueMap::insert_map
insert_map ==
    /\ UNCHANGED exceptMap
    /\ NothingShown
    /\ \E id \in MapKeys, map \in InnerMaps :
          /\ data' = HashMapInsert(data, id, Map(map))
          /\ inserted' = FirstInsertion(id)
    /\ UNCHANGED shown

\* ValueMap::insert_constant
insert_constant ==
    /\ UNCHANGED exceptMap
    /\ NothingShown
    /\ \E id \in MapKeys, v \in MapConstants :
          /\ data' = HashMapInsert(data, id, v)
          /\ inserted' = FirstInsertion(id)
    /\ UNCHANGED shown

\* Display for Value::Map in one run: `for pair in &map.data` visits the
\* entries in the order of the HashMap, which its hasher's random keys decide.
DisplayOfMap ==
    /\ UNCHANGED exceptMap
    /\ \E r \in Runs, order \in Orders(DOMAIN data) :
          /\ shown[r] = Pending
          /\ shown' = [shown EXCEPT ![r] = DisplayMap(data, order)]
    /\ UNCHANGED <<data, inserted>>

MapNext ==
    \/ insert_fun
    \/ insert_map
    \/ insert_constant
    \/ DisplayOfMap

SpecMap == MapInit /\ [][MapNext]_vars

\* ----------------------------------------------------------------- C11

\* Both runs have printed the map.
BothShown == shown # << >> /\ \A r \in Runs : shown[r] # Pending

\* C11 as stated: two runs of the same program give identical output; the
\* text Display gives for a map, two or more entries included, is the same in
\* every run.
C11_SameTextEveryRun == BothShown => shown[1] = shown[2]

\* ----------------------------------------------------------------- C12

\* "k: v" for each key of keys in turn, separated by ", ".
RECURSIVE JoinEntries(_, _)
JoinEntries(d, keys) ==
    IF keys = << >> THEN << >>
    ELSE Head(keys) \o <<":", " ">> \o DisplayValue(d[Head(keys)]).chars
           \o (IF Len(keys) = 1 THEN << >> ELSE <<",", " ">>)
           \o JoinEntries(d, Tail(keys))

\* C12 as stated: the text Display gives for a map lists the entries in the
\* order in which their keys were first inserted, by whatever insert_fun,
\* insert_map and insert_constant calls the map was built.
C12_InsertionOrder ==
    \A r \in DOMAIN shown :
        shown[r] # Pending /\ ~IsPanic(shown[r]) =>
            shown[r].chars
               = <<"{", " ">> \o JoinEntries(data, inserted) \o <<" ", "}">>

\* ----------------------------------------------------------------- C13

\* Boolean(false) and Nil are falsy, every other value is truthy.
Falsy(v) == v.t = "Nil" \/ (v.t = "Boolean" /\ ~v.b)

\* C13 as stated: Not v is Boolean(true) exactly when v is falsy, that is
\* Boolean(false) or Nil, and Boolean(false) for every other value.
C13_NotFollowsTruthiness ==
    Applied({"Not"}) => result = Boolean(Falsy(applied.val))

\* ----------------------------------------------------------------- C14

\* Equality as the specification describes it: false across variants, deep on
\* the elements of a List or Tuple and on the entries of a Map.
RECURSIVE DeepEq(_, _)
DeepEq(a, b) ==
    IF a.t # b.t THEN FALSE
    ELSE CASE a.t = "Number" -> F64Eq(F64Of(a), F64Of(b))
           [] a.t \in {"List", "Tuple"} ->
                  /\ Len(a.items) = Len(b.items)
                  /\ \A i \in 1..Len(a.items) : DeepEq(a.items[i], b.items[i])
           [] a.t = "Map" ->
                  /\ DOMAIN a.data = DOMAIN b.data
                  /\ \A k \in DOMAIN a.data : DeepEq(a.data[k], b.data[k])
           [] OTHER -> a = b

\* C14 as stated: == is false for operands of distinct variants and deep on
\* List, Tuple and Map: lists and tuples with pairwise equal elements are
\* equal, and maps with the same keys and equal values are equal.
C14_DeepEquality ==
    Applied({"Equal"}) => result = Boolean(DeepEq(applied.lhs, applied.rhs))

\* ---------------------------------------------------------------- Lexer

\* A source text is a sequence of characters; a character is written as a
\* string, the two-byte characters by their code point.
MaxSrcLen == 3

\* Bytes of the UTF-8 encoding of a character.
ByteLen(c) == IF c \in {"U+00E9", "U+00A0"} THEN 2 ELSE 1

\* Bytes of the first i characters of src.
RECURSIVE Width(_, _)
Width(src, i) == IF i = 0 THEN 0 ELSE Width(src, i - 1) + ByteLen(src[i])

\* source.contents.len()
ContentsLen(src) == Width(src, Len(src))

\* The index of the character that starts at byte offset off (Len + 1 at the
\* end of the text).
IndexAt(src, off) == CHOOSE i \in 1..(Len(src) + 1) : Width(src, i - 1) = off

\* &source.contents[from..to]
Slice(src, from, to) == SubSeq(src, IndexAt(src, from), IndexAt(src, to) - 1)

NoChar == "<None>"

\* Lexer::peek: the character at current, None at the end of the text.
LexerPeek(src, cur) ==
    IF cur >= ContentsLen(src) THEN NoChar ELSE src[IndexAt(src, cur)]

\* advance by one byte, without the search for the next char boundary.
LexerAdvanceOneByte(src, cur) ==
    IF cur >= ContentsLen(src) THEN cur ELSE cur + 1

\* Lexer::advance: current moves past the character at current, if any.
LexerAdvance(src, cur) ==
    IF cur >= ContentsLen(src) THEN cur ELSE cur + ByteLen(LexerPeek(src, cur))

\* Lexer::match_
LexerMatch(src, cur, lexeme) == LexerPeek(src, cur) = lexeme

AsciiLetters ==
    { "a", "b", "c", "d", "e", "f", "g", "h", "i", "j", "k", "l", "m",
      "n", "o", "p", "q", "r", "s", "t", "u", "v", "w", "x", "y", "z",
      "A", "B", "C", "D", "E", "F", "G", "H", "I", "J", "K", "L", "M",
      "N", "O", "P", "Q", "R", "S", "T", "U", "V", "W", "X", "Y", "Z" }

\* Lexer::is_alpha
is_alpha(c) == c \in AsciiLetters \cup {"_"}

\* Lexer::is_number
is_number(c) == c \in {"0", "1", "2", "3", "4", "5", "6", "7", "8", "9"}

\* Lexer::is_whitespace (char::is_whitespace)
is_whitespace(c) == c \in {" ", "\t", "\r", "\n", "U+00A0"}

\* while self.peek().is_some() && is_alpha(peek) { self.advance(); }
RECURSIVE WhileAlpha(_, _)
WhileAlpha(src, cur) ==
    IF is_alpha(LexerPeek(src, cur)) THEN WhileAlpha(src, LexerAdvance(src, cur))
    ELSE cur

\* while self.peek().is_some() && is_number(peek) { self.advance(); }
RECURSIVE WhileNumber(_, _)
WhileNumber(src, cur) ==
    IF is_number(LexerPeek(src, cur)) THEN WhileNumber(src, LexerAdvance(src, cur))
    ELSE cur

\* while self.peek().is_some() && self.peek() == Some(c) { self.advance(); }
RECURSIVE WhileIs(_, _, _)
WhileIs(src, cur, c) ==
    IF LexerPeek(src, cur) = c THEN WhileIs(src, LexerAdvance(src, cur), c)
    ELSE cur

\* while self.peek().is_some() && self.peek() != Some(c) { self.advance(); }
RECURSIVE UntilIs(_, _, _)
UntilIs(src, cur, c) ==
    IF LexerPeek(src, cur) \notin {c, NoChar}
    THEN UntilIs(src, LexerAdvance(src, cur), c)
    ELSE cur

\* TokenType: the kind and, for a symbol, keyword or comment, its text.
TokenType(kind, text) == [kind |-> kind, text |-> text]

\* Span::new(start, length, source)
Span(start, length) == [start |-> start, length |-> length]

\* Token::new(value, type, span)
Token(value, type, span) == [value |-> value, type |-> type, span |-> span]

\* Token::eof(current, source), as Lexer::tokenize's test has it.
TokenEof(cur) ==
    Token(<<"<", "e", "o", "f", ">">>, TokenType("Eof", << >>), Span(cur, 1))

\* make_token with the end of the token for its length.
make_token_EndAsLength(token_val, token_type, prv, cur) ==
    Token(token_val, token_type, Span(prv, cur))

\* Lexer::make_token with self.previous = prv and self.current = cur.
make_token(token_val, token_type, prv, cur) ==
    Token(token_val, token_type, Span(prv, cur - prv))

Keywords ==
    { <<"t", "r", "u", "e">>, <<"f", "a", "l", "s", "e">>, <<"i", "s">>,
      <<"i", "s", "n", "t">>, <<"a", "n", "d">>, <<"o", "r">>, <<"i", "f">>,
      <<"e", "l", "s", "e">>, <<"v", "a", "r">>, <<"c", "o", "n">>,
      <<"l", "o", "o", "p">>, <<"w", "h", "i", "l", "e">>,
      <<"b", "r", "e", "a", "k">>, <<"f", "u", "n">> }

\* Lexer::keyword: the type of the identifier source[previous..current]
keyword(value) ==
    IF value \in Keywords THEN TokenType("Keyword", value) ELSE TokenType("Id", << >>)

\* The characters tokenize turns into a symbol of their own.
SingleSymbols ==
    {"+", "-", "*", "(", ")", "{", "}", "[", "]", ",", ".", "=", "%", "!"}

\* Lexer::number: where the number that starts at previous ends.
NumberEnd(src, cur) ==
    LET digits == WhileNumber(src, cur)
        fraction == IF LexerPeek(src, digits) = "."
                    THEN WhileNumber(src, LexerAdvance(src, digits))
                    ELSE digits
        e == LexerAdvance(src, fraction)
        sign == IF LexerPeek(src, e) \in {"-", "+"} THEN LexerAdvance(src, e) ELSE e
    IN  IF LexerPeek(src, fraction) = "e" THEN WhileNumber(src, sign) ELSE fraction

\* The characters the enumerated source texts are made of.
LexAlphabet ==
    {"+", "=", "<", ">", "/", "\"", "a", "1", " ", "\n", "&", "U+00E9"}

\* `123 + 456`, the text of test_lexer.
test_lexer == <<"1", "2", "3", " ", "+", " ", "4", "5", "6">>

\* The operators of the language, each as a source text of its own.
OperatorList ==
    { <<"+">>, <<"-">>, <<"*">>, <<"/">>, <<"%">>, <<">">>, <<">", "=">>,
      <<"<">>, <<"<", "=">>, <<"=", "=">>, <<"!", "=">>, <<"&">>, <<"|">>,
      <<"^">>, <<"!">> }

\* Longer texts: numbers with fraction and exponent, keywords, strings, a
\* comment, brackets.
LexSamples ==
    { <<"1", ".", "5", " ", "2", "e", "+", "1">>,
      <<"t", "r", "u", "e", " ", "o", "r", " ", "x", "_", "y">>,
      <<"\"", "a", " ", "U+00E9", "\"", "U+00A0", "\"", "b", "\"">>,
      <<"/", "/", " ", "c", "\n", "\n", "(", "a", ")", "\t", "[", "]">>,
      <<"a", "1", "<", "=", "b", ">", "=", "2">> }

LexSources ==
    UNION {[1..n -> LexAlphabet] : n \in 0..MaxSrcLen}
    \cup {test_lexer} \cup OperatorList \cup LexSamples

\* Lexer::new
LexInit ==
    /\ source \in LexSources
    /\ previous = 0
    /\ current = 0
    /\ tokens = << >>
    /\ lexed = [kind |-> "none"]
    /\ VmIdle /\ OpsIdle /\ MapIdle /\ CloIdle /\ InsIdle /\ RestIdle

\* tokenize is in its loop.
Lexing == lexed.kind = "none"

\* let c = self.advance();
AdvancedChar == LexerPeek(source, current)

AfterAdvance == LexerAdvance(source, current)

\* tokens.push(token): the token ends at cur, and make_token has moved
\* previous there.
PushToken(token, cur) ==
    /\ tokens' = Append(tokens, token)
    /\ previous' = cur
    /\ current' = cur
    /\ UNCHANGED <<source, lexed>>

\* return Err(SyntaxError::error(kind, .., Span::new(0, contents.len()))):
\* the tokens read so far are dropped.
LexError(kind, cur) ==
    /\ lexed' = [kind |-> kind, span |-> Span(0, ContentsLen(source))]
    /\ tokens' = << >>
    /\ current' = cur
    /\ UNCHANGED <<source, previous>>

\* The arms of one character: + - * ( ) { } [ ] , . = % !
LexSymbol ==
    /\ UNCHANGED exceptLex
    /\ Lexing
    /\ AdvancedChar \in SingleSymbols
    /\ PushToken(make_token(<<AdvancedChar>>, TokenType("Symbol", <<AdvancedChar>>),
                            previous, AfterAdvance), AfterAdvance)

\* Some("/"): a comment up to the end of the line after `//`, else the symbol.
LexSlash ==
    /\ UNCHANGED exceptLex
    /\ Lexing
    /\ AdvancedChar = "/"
    /\ IF LexerMatch(source, AfterAdvance, "/")
       THEN LET cur == UntilIs(source, LexerAdvance(source, AfterAdvance), "\n")
            IN  PushToken(make_token(Slice(source, previous + 2, cur),
                                     TokenType("Comment", <<"/", "/">>),
                                     previous, cur), cur)
       ELSE PushToken(make_token(<<"/">>, TokenType("Symbol", <<"/">>),
                                 previous, AfterAdvance), AfterAdvance)

\* Some(">")
LexGreater ==
    /\ UNCHANGED exceptLex
    /\ Lexing
    /\ AdvancedChar = ">"
    /\ IF LexerMatch(source, AfterAdvance, "=")
       THEN LET cur == LexerAdvance(source, AfterAdvance)
            IN  PushToken(make_token(<<">", "=">>, TokenType("Symbol", <<">", "=">>),
                                     previous, cur), cur)
       ELSE PushToken(make_token(<<">">>, TokenType("Symbol", <<">">>),
                                 previous, AfterAdvance), AfterAdvance)

\* Some("<"): the token types are those of `>=` and `>`.
LexLess ==
    /\ UNCHANGED exceptLex
    /\ Lexing
    /\ AdvancedChar = "<"
    /\ IF LexerMatch(source, AfterAdvance, "=")
       THEN LET cur == LexerAdvance(source, AfterAdvance)
            IN  PushToken(make_token(<<"<", "=">>, TokenType("Symbol", <<">", "=">>),
                                     previous, cur), cur)
       ELSE PushToken(make_token(<<"<">>, TokenType("Symbol", <<">">>),
                                 previous, AfterAdvance), AfterAdvance)

\* Some("\n") => self.newline(): one token for a run of newlines.
LexNewline ==
    /\ UNCHANGED exceptLex
    /\ Lexing
    /\ AdvancedChar = "\n"
    /\ LET cur == WhileIs(source, AfterAdvance, "\n")
       IN  PushToken(make_token(<<"\\", "n">>, TokenType("Newline", << >>),
                                previous, cur), cur)

\* Some("\"") => self.string()?: string() first advances past one more
\* character, whatever it is, and then looks for the closing quote.
LexString ==
    /\ UNCHANGED exceptLex
    /\ Lexing
    /\ AdvancedChar = "\""
    /\ LET close == UntilIs(source, LexerAdvance(source, AfterAdvance), "\"")
           cur == LexerAdvance(source, close)
       IN  IF LexerPeek(source, close) = NoChar
           THEN LexError("UnterminatedString", close)
           ELSE PushToken(make_token(Slice(source, previous + 1, close),
                                     TokenType("String", << >>), previous, cur), cur)

\* None: push the Eof token and return the tokens.
LexEof ==
    /\ UNCHANGED exceptLex
    /\ Lexing
    /\ AdvancedChar = NoChar
    /\ tokens' = Append(tokens, TokenEof(current))
    /\ lexed' = [kind |-> "Ok", span |-> Span(0, ContentsLen(source))]
    /\ UNCHANGED <<source, previous, current>>

\* c if is_alpha(c) => self.ident()?
LexIdent ==
    /\ UNCHANGED exceptLex
    /\ Lexing
    /\ is_alpha(AdvancedChar)
    /\ LET cur == WhileAlpha(source, AfterAdvance)
           value == Slice(source, previous, cur)
       IN  PushToken(make_token(value, keyword(value), previous, cur), cur)

\* c if is_number(c) => self.number()?
LexNumber ==
    /\ UNCHANGED exceptLex
    /\ Lexing
    /\ is_number(AdvancedChar)
    /\ LET cur == NumberEnd(source, AfterAdvance)
       IN  PushToken(make_token(Slice(source, previous, cur),
                                TokenType("Number", << >>), previous, cur), cur)

\* c if is_whitespace(c): no token; previous moves on.
LexWhitespace ==
    /\ UNCHANGED exceptLex
    /\ Lexing
    /\ AdvancedChar # "\n"
    /\ is_whitespace(AdvancedChar)
    /\ previous' = AfterAdvance
    /\ current' = AfterAdvance
    /\ UNCHANGED <<source, tokens, lexed>>

\* Any other character: UnexpectedToken.
LexUnexpected ==
    /\ UNCHANGED exceptLex
    /\ Lexing
    /\ AdvancedChar \notin SingleSymbols \cup {"/", ">", "<", "\n", "\"", NoChar}
    /\ ~is_alpha(AdvancedChar)
    /\ ~is_number(AdvancedChar)
    /\ ~is_whitespace(AdvancedChar)
    /\ LexError("UnexpectedToken", AfterAdvance)

LexNext ==
    \/ LexSymbol
    \/ LexSlash
    \/ LexGreater
    \/ LexLess
    \/ LexNewline
    \/ LexString
    \/ LexEof
    \/ LexIdent
    \/ LexNumber
    \/ LexWhitespace
    \/ LexUnexpected

SpecLex == LexInit /\ [][LexNext]_vars

\* ----------------------------------------------------------------- C15

\* The text of the source a token's span covers.
Lexeme(token) ==
    Slice(source, token.span.start, token.span.start + token.span.length)

Comparisons == {<<"<">>, <<"<", "=">>, <<">">>, <<">", "=">>}

IsComparison(token) ==
    token.type.kind = "Symbol" /\ Lexeme(token) \in Comparisons

\* C15 as stated: the lexemes `<`, `<=`, `>` and `>=` get four pairwise
\* distinct token types: two tokens of different lexemes among them never have
\* the same type.
C15_DistinctComparisons ==
    \A i, j \in 1..Len(tokens) :
        IsComparison(tokens[i]) /\ IsComparison(tokens[j])
          /\ Lexeme(tokens[i]) # Lexeme(tokens[j]) =>
            tokens[i].type # tokens[j].type

\* ----------------------------------------------------------------- C16

\* Whitespace that is no newline.
Blank(c) == is_whitespace(c) /\ c # "\n"

\* Every character of the source between the byte offsets from and to is
\* blank.
AllBlank(from, to) ==
    \A i \in IndexAt(source, from)..(IndexAt(source, to) - 1) : Blank(source[i])

SpanEnd(token) == token.span.start + token.span.length

IsEof(token) == token.type.kind = "Eof"

\* The token's value is the text its span covers: all of it, without the
\* quotes for a string, without the `//` for a comment; a Newline token covers
\* newlines only, a number starts with a digit, a name is made of letters.
ValueIsLexeme(token) ==
    LET lexeme == Lexeme(token)
    IN  CASE token.type.kind = "String" ->
               /\ Len(lexeme) >= 2
               /\ lexeme[1] = "\"" /\ lexeme[Len(lexeme)] = "\""
               /\ token.value = SubSeq(lexeme, 2, Len(lexeme) - 1)
          [] token.type.kind = "Comment" ->
               /\ SubSeq(lexeme, 1, 2) = <<"/", "/">>
               /\ token.value = SubSeq(lexeme, 3, Len(lexeme))
               /\ \A i \in 1..Len(lexeme) : lexeme[i] # "\n"
          [] token.type.kind = "Newline" ->
               \A i \in 1..Len(lexeme) : lexeme[i] = "\n"
          [] token.type.kind = "Number" ->
               token.value = lexeme /\ is_number(lexeme[1])
          [] token.type.kind \in {"Id", "Keyword"} ->
               token.value = lexeme /\ \A i \in 1..Len(lexeme) : is_alpha(lexeme[i])
          [] token.type.kind = "Symbol" -> token.value = lexeme

Tokenized == lexed.kind \notin {"idle", "none"}

\* C17 as stated: every operator of the operator list, given as the source,
\* is accepted and gives exactly one token, the symbol of that operator,
\* before Eof; none gives an error or is split in two.
C17_OperatorsAreTokens ==
    Tokenized /\ source \in OperatorList =>
        /\ lexed.kind = "Ok"
        /\ Len(tokens) = 2
        /\ tokens[1] = Token(source, TokenType("Symbol", source),
                             Span(0, ContentsLen(source)))

\* ----------------------------------------------------------------- C18

\* A character tokenize has an arm for.
Recognised(c) ==
    \/ c \in SingleSymbols \cup {"/", ">", "<", "\"", "\n"}
    \/ is_alpha(c)
    \/ is_number(c)
    \/ is_whitespace(c)

\* The index of the first c in src from index i on, Len(src) + 1 if none.
RECURSIVE FirstFrom(_, _, _)
FirstFrom(src, i, c) ==
    IF i > Len(src) \/ src[i] = c THEN i ELSE FirstFrom(src, i + 1, c)

\* What reading src from index i on should give: a string runs from its quote
\* to the next quote, a comment from `//` to the end of the line.
RECURSIVE Expected(_, _)
Expected(src, i) ==
    IF i > Len(src) THEN "Ok"
    ELSE IF src[i] = "\""
    THEN IF FirstFrom(src, i + 1, "\"") > Len(src) THEN "UnterminatedString"
         ELSE Expected(src, FirstFrom(src, i + 1, "\"") + 1)
    ELSE IF src[i] = "/" /\ i < Len(src) /\ src[i + 1] = "/"
    THEN Expected(src, FirstFrom(src, i + 2, "\n"))
    ELSE IF ~Recognised(src[i]) THEN "UnexpectedToken"
    ELSE Expected(src, i + 1)

\* C18 as stated: tokenize returns an error, and no tokens, exactly in two
\* cases: UnterminatedString for a quote that no closing quote follows,
\* UnexpectedToken for a character that is no recognised symbol, letter,
\* underscore, digit, quote, newline or whitespace; the error carries a span
\* of the source.
C18_TwoErrorCases ==
    Tokenized =>
        /\ lexed.kind = Expected(source, 1)
        /\ lexed.kind # "Ok" =>
              /\ tokens = << >>
              /\ lexed.span = Span(0, ContentsLen(source))

\* -------------------------------------------------------------- Closure

\* Capture descriptors per function and slots they name.
MaxCaptures == 2

\* enum Captured
Local(slot) == [kind |-> "Local", slot |-> slot]

NonLocal(slot) == [kind |-> "NonLocal", slot |-> slot]

\* Function::new
FunctionNew(name, arity, code, captures) ==
    [name |-> name, arity |-> arity, chunk |-> code, captures |-> captures]

\* Function::empty
FunctionEmpty == FunctionNew(<<"<", "s", "c", "r", "i", "p", "t", ">">>, 0, EmptyChunk, << >>)

\* Upvalue::new
UpvalueNew(location, value) == [location |-> location, value |-> value, next |-> "None"]

CaptureDescriptors ==
    {Local(slot) : slot \in 0..(MaxCaptures - 1)} \cup {NonLocal(0)}

Functions ==
    {FunctionEmpty}
    \cup {FunctionNew(name, arity, EmptyChunk, captures) :
            name \in {<<"f">>, <<"g">>}, arity \in 0..1,
            captures \in UNION {[1..n -> CaptureDescriptors] : n \in 0..MaxCaptures}}

CloInit ==
    /\ function \in Functions
    /\ closure = << >>
    /\ VmIdle /\ OpsIdle /\ LexIdle /\ MapIdle /\ InsIdle /\ RestIdle

\* Closure::wrap(function): the function with an empty capture list.
ClosureWrap ==
    /\ UNCHANGED exceptClo
    /\ closure = << >>
    /\ closure' = <<[function |-> function, captures |-> << >>]>>
    /\ UNCHANGED function

\* Closure::empty(): the empty function with an empty capture list.
ClosureEmpty ==
    /\ UNCHANGED exceptClo
    /\ closure = << >>
    /\ closure' = <<[function |-> FunctionEmpty, captures |-> << >>]>>
    /\ UNCHANGED function

\* The Closure instruction at run time: the function is wrapped and one
\* upvalue is captured per capture descriptor of the function.
ExecClosure ==
    /\ UNCHANGED exceptClo
    /\ closure = << >>
    /\ closure' = <<[function |-> function,
                     captures |-> [i \in 1..Len(function.captures) |->
                                      UpvalueNew(function.captures[i].slot, Nil)]]>>
    /\ UNCHANGED function

CloNext ==
    \/ ClosureWrap
    \/ ClosureEmpty
    \/ ExecClosure

SpecClo == CloInit /\ [][CloNext]_vars

\* ----------------------------------------------------------------- C19

\* C19 as stated: every Closure has as many captures as its Function has
\* capture descriptors, whether made by Closure::wrap, by Closure::empty or
\* at run time.
C19_CapturesMatchDescriptors ==
    \A i \in 1..Len(closure) :
        Len(closure[i].captures) = Len(closure[i].function.captures)

\* ------------------------------------------------------------- Instance

\* Class::new(name): a class without methods, constructors and fields.
ClassNew(name) == [name |-> name]

\* Instance::new(class)
InstanceNew(class) == [t |-> "Instance", class |-> class, fields |-> << >>]

\* Instance::get_field: self.fields.get(name).cloned().unwrap_or(Value::Nil)
get_field(instance, name) ==
    IF name \in DOMAIN instance.fields THEN instance.fields[name] ELSE Nil

\* Instance::add_field: self.fields.insert(name, value)
add_field(instance, name, value) ==
    [instance EXCEPT !.fields = HashMapInsert(instance.fields, name, value)]

\* Clone for Value.  The Instance arm clones the Instance, and the derived
\* Clone of Instance clones the Rc of its class and its table of fields: the
\* copy has a table of its own with the same entries.
ValueClone(val) == val

FieldNames == {"x", "y"}

FieldValues == {Num(1), Num(2)}

Holders == {1, 2}

Other(h) == 3 - h

NoWrite == [holder |-> 0]

InsInit ==
    /\ holders = <<InstanceNew(ClassNew(<<"C">>)), Nil>>
    /\ written = NoWrite
    /\ got = Pending
    /\ VmIdle /\ OpsIdle /\ LexIdle /\ MapIdle /\ CloIdle /\ RestIdle

\* The Value of one holder is copied into the other (a variable read, a
\* stack slot loaded): to = from.clone().
CopyValue ==
    /\ UNCHANGED exceptIns
    /\ \E from \in Holders :
          /\ holders[from].t = "Instance"
          /\ holders' = [holders EXCEPT ![Other(from)] = ValueClone(holders[from])]
    /\ UNCHANGED <<written, got>>

\* instance.add_field(name, value) through one holder.
AddField ==
    /\ UNCHANGED exceptIns
    /\ \E h \in Holders, name \in FieldNames, value \in FieldValues :
          /\ holders[h].t = "Instance"
          /\ holders' = [holders EXCEPT ![h] = add_field(holders[h], name, value)]
          /\ written' = [holder |-> h, name |-> name, value |-> value]
    /\ UNCHANGED got

\* instance.get_field(name) through one holder.
GetField ==
    /\ UNCHANGED exceptIns
    /\ \E h \in Holders, name \in FieldNames :
          /\ holders[h].t = "Instance"
          /\ got' = [holder |-> h, name |-> name,
                     value |-> get_field(holders[h], name)]
    /\ UNCHANGED <<holders, written>>

InsNext ==
    \/ CopyValue
    \/ AddField
    \/ GetField

SpecIns == InsInit /\ [][InsNext]_vars

\* ----------------------------------------------------------------- C20

\* C20 as stated: an Instance held by two holders is one shared object: the
\* field written last with add_field through one holder is what get_field
\* returns through the other.
C20_SharedByReference ==
    written # NoWrite /\ holders[Other(written.holder)].t = "Instance" =>
        get_field(holders[Other(written.holder)], written.name) = written.value

\* ------------------------------------------------------------- Upvalues

\* The values the locals of the enclosing frame hold and closures store.
UpValues == {Num(1), Num(2), Num(3)}

ClosureIds == {1, 2}

NoStore == [closure |-> 0]

\* The enclosing frame: its base is stack index 0 and it has one local per
\* slot a capture descriptor can name.
UpInit ==
    /\ locals \in [1..MaxCaptures -> UpValues]
    /\ returned = FALSE
    /\ open = << >>
    /\ closures = << << >>, << >> >>
    /\ stored = NoStore
    /\ VmIdle /\ OpsIdle /\ LexIdle /\ MapIdle /\ CloIdle /\ InsIdle /\ StkIdle

\* The open upvalue of a stack location, if there is one.
FindOpen(opn, location) == {i \in 1..Len(opn) : opn[i].location = location}

\* An upvalue is inserted into the open list, which is ordered by
\* descending stack location.
InsertOpen(opn, up) ==
    LET k == Cardinality({i \in 1..Len(opn) : opn[i].location > up.location})
    IN  SubSeq(opn, 1, k) \o <<up>> \o SubSeq(opn, k + 1, Len(opn))

\* Look up or create the open upvalue of a stack location.
LookupOrCreate(opn, location, value) ==
    IF FindOpen(opn, location) # {} THEN opn
    ELSE InsertOpen(opn, UpvalueNew(location, value))

\* The captures of a closure, one per Local(slot) descriptor: the open
\* upvalue of the slot is looked up or created, and the closure's
\* Vec<Upvalue> receives it by value, that is a copy of it.
RECURSIVE CaptureAll(_, _, _)
CaptureAll(descriptors, opn, stk) ==
    IF descriptors = << >> THEN [open |-> opn, captures |-> << >>]
    ELSE LET location == Head(descriptors).slot
             opn1 == LookupOrCreate(opn, location, stk[location + 1])
             up == opn1[CHOOSE i \in FindOpen(opn1, location) : TRUE]
             rest == CaptureAll(Tail(descriptors), opn1, stk)
         IN  [open |-> rest.open, captures |-> <<up>> \o rest.captures]

LocalDescriptors ==
    UNION {[1..n -> {Local(slot) : slot \in 0..(MaxCaptures - 1)}] :
              n \in 1..MaxCaptures}

\* The Closure instruction executed in the enclosing frame: the function is
\* wrapped and its captures are materialised from the frame.
MakeClosure ==
    /\ UNCHANGED exceptUp
    /\ ~returned
    /\ \E c \in ClosureIds, descriptors \in LocalDescriptors :
          /\ closures[c] = << >>
          /\ LET made == CaptureAll(descriptors, open, locals)
                 fun == FunctionNew(<<"f">>, 0, EmptyChunk, descriptors)
             IN  /\ open' = made.open
                 /\ closures' = [closures EXCEPT ![c] =
                                    <<[function |-> fun, captures |-> made.captures]>>]
    /\ UNCHANGED <<locals, returned, stored>>

\* What a closure reads through capture i: the stack slot of an open
\* upvalue, the value held by the upvalue object once closed.
ReadUpvalue(c, i) ==
    IF ~returned THEN locals[closures[c][1].captures[i].location + 1]
    ELSE closures[c][1].captures[i].value

\* SetUpvalue(i) executed by closure c: the store goes to the stack slot of
\* an open upvalue, to the closure's upvalue object once closed.
SetUpvalue ==
    /\ UNCHANGED exceptUp
    /\ \E c \in ClosureIds, v \in UpValues :
          /\ closures[c] # << >>
          /\ \E i \in 1..Len(closures[c][1].captures) :
                LET location == closures[c][1].captures[i].location
                IN  /\ IF ~returned
                       THEN /\ locals' = [locals EXCEPT ![location + 1] = v]
                            /\ UNCHANGED closures
                       ELSE /\ closures' = [closures EXCEPT
                                               ![c][1].captures[i].value = v]
                            /\ UNCHANGED locals
                    /\ stored' = [closure |-> c, location |-> location, value |-> v]
    /\ UNCHANGED <<returned, open>>

\* The value of a stack slot is copied into an upvalue object.
CloseUpvalue(up, stk) == [up EXCEPT !.value = stk[up.location + 1]]

\* Return of the enclosing frame: every upvalue object that points at or
\* above the frame's base is closed (the copies held by the closures
\* included), and the stack is truncated to the base.
FrameReturn ==
    /\ UNCHANGED exceptUp
    /\ ~returned
    /\ closures' = [c \in ClosureIds |->
                      IF closures[c] = << >> THEN << >>
                      ELSE <<[closures[c][1] EXCEPT !.captures =
                                [i \in 1..Len(closures[c][1].captures) |->
                                    CloseUpvalue(closures[c][1].captures[i], locals)]]>>]
    /\ open' = << >>
    /\ locals' = << >>
    /\ returned' = TRUE
    /\ UNCHANGED stored

UpNext ==
    \/ MakeClosure
    \/ SetUpvalue
    \/ FrameReturn

SpecUp == UpInit /\ [][UpNext]_vars

\* ----------------------------------------------------------------- C21

\* C21 as stated: two closures that capture the same enclosing local observe
\* the same upvalue: the value stored last through one closure's capture is
\* what the other closure reads through its capture of that local, while the
\* enclosing frame is live and after it has returned.
C21_SharedUpvalue ==
    stored # NoStore =>
        \A c \in ClosureIds \ {stored.closure} :
            closures[c] # << >> =>
                \A i \in 1..Len(closures[c][1].captures) :
                    closures[c][1].captures[i].location = stored.location =>
                        ReadUpvalue(c, i) = stored.value

\* ------------------------------------------------- Stack, operated alone

\* Slots a Stack holds before push is no longer offered.
MaxDepth == 3

\* The Data pushed.
StackData == {Num(1), Num(2), Num(3)}

\* Stack::new()
StackNew == << >>

StkInit ==
    /\ slots = StackNew
    /\ taken = Pending
    /\ VmIdle /\ OpsIdle /\ LexIdle /\ MapIdle /\ CloIdle /\ InsIdle /\ UpIdle

\* A panic ends the program: no operation follows it.
StackUsable == IF taken = Pending THEN TRUE ELSE ~IsPanic(taken.value)

\* stack.push(Slot::new(data))
StackPush ==
    /\ UNCHANGED exceptStk
    /\ StackUsable
    /\ Len(slots) < MaxDepth
    /\ \E v \in StackData : slots' = Push(slots, v)
    /\ taken' = Pending

\* stack.pop()
StackPop ==
    /\ UNCHANGED exceptStk
    /\ StackUsable
    /\ slots' = Pop(slots).stack
    /\ taken' = [t |-> "taken", op |-> "pop", before |-> slots,
                 value |-> Pop(slots).value]

\* stack.peek()
StackPeek ==
    /\ UNCHANGED exceptStk
    /\ StackUsable
    /\ slots' = slots
    /\ taken' = [t |-> "taken", op |-> "peek", before |-> slots,
                 value |-> Peek(slots)]

StkNext ==
    \/ StackPush
    \/ StackPop
    \/ StackPeek

SpecStk == StkInit /\ [][StkNext]_vars

\* ----------------------------------------------------------------- C22

\* C22 as stated: a pop or peek attempted when the stack holds no value
\* above the base (the base of a Stack is its bottom) yields the
\* StackUnderflow runtime error and leaves the stack unchanged; it does not
\* panic and removes nothing.
C22_UnderflowIsAnError ==
    taken # Pending /\ taken.before = << >> =>
        /\ ~IsPanic(taken.value)
        /\ taken.value = [t |-> "StackUnderflow"]
        /\ slots = taken.before

\* -------------------------------------------------- Index<f64> for Value

\* `index as u32` for an f64 that is not +infinity: the cast saturates, so
\* NaN, -infinity and every negative index become 0, and the fraction of a
\* finite index is dropped.
F64AsU32(index) ==
    IF IsNaN(index) \/ IsInf(index) THEN 0
    ELSE IF Trunc(index) < 0 THEN 0 ELSE Trunc(index)

\* value[index]: &list[index as u32 as usize] for a List, unreachable!() for
\* every other Value.  +infinity saturates to u32::MAX, which no list here
\* reaches; Vec's indexing panics when the index is not below the length.
ValueIndex(val, index) ==
    IF val.t # "List" THEN Panicked("unreachable")
    ELSE IF IsInf(index) /\ index.n > 0 THEN Panicked("index out of bounds")
    ELSE IF F64AsU32(index) < Len(val.items)
         THEN val.items[F64AsU32(index) + 1]
         ELSE Panicked("index out of bounds")

\* The lists indexed and the indices used: integers from -1 to past the
\* end, halves between them, NaN and the infinities.
IndexedLists ==
    {List(items) :
        items \in UNION {[1..n -> {Num(1), String(<<"c">>)}] : n \in 0..MaxNestNum}}

Indices ==
    {F64(n, 2) : n \in (-2)..(2 * MaxNum)} \cup {F64NaN, F64(1, 0), F64(-1, 0)}

IdxInit ==
    /\ applied \in {[op |-> "Index", lhs |-> l, rhs |-> Number(i)] :
                       l \in IndexedLists, i \in Indices}
    /\ result = Pending
    /\ VmIdle /\ LexIdle /\ MapIdle /\ CloIdle /\ InsIdle /\ RestIdle

\* lhs[rhs]
ApplyIndex ==
    /\ UNCHANGED exceptOps
    /\ result = Pending
    /\ applied.op = "Index"
    /\ result' = ValueIndex(applied.lhs, F64Of(applied.rhs))
    /\ UNCHANGED applied

IdxNext == ApplyIndex

SpecIdx == IdxInit /\ [][IdxNext]_vars

\* ----------------------------------------------------------------- C23

\* The index is an integer i with 0 <= i < len.
IntegerInRange(index, len) ==
    /\ ~IsNaN(index) /\ ~IsInf(index)
    /\ index.d = 1
    /\ 0 <= index.n /\ index.n < len

\* C23 as stated: a List indexed with a Number i gives element i only when i
\* is an integer with 0 <= i < len; for every other index (negative,
\* fractional, or at or past the length) the result is the IndexOutOfRange
\* runtime error and no element is returned.
C23_IndexOutOfRange ==
    Applied({"Index"}) =>
        IF IntegerInRange(F64Of(applied.rhs), Len(applied.lhs.items))
        THEN result = applied.lhs.items[applied.rhs.n + 1]
        ELSE result = [t |-> "IndexOutOfRange"]

\* ----------------------------------------------------------------- C24

\* The byte offsets at which a character of the source starts, and its end.
Boundaries(src) == {Width(src, i) : i \in 0..Len(src)}

\* 0 <= previous <= current <= len(source), both on a character boundary.
OffsetsInBounds ==
    /\ 0 <= previous /\ previous <= current /\ current <= ContentsLen(source)
    /\ {previous, current} \subseteq Boundaries(source)

\* One advance, which the helper loops make per iteration, moves current
\* forward by a whole character, from every offset with a character left.
AdvanceMoves ==
    \A off \in Boundaries(source) \ {ContentsLen(source)} :
        /\ LexerAdvance(source, off) > off
        /\ LexerAdvance(source, off) \in Boundaries(source)

\* C24: Lexer::tokenize terminates on every finite source: the offsets stay
\* within 0 <= previous <= current <= len(source), every advance of a helper
\* loop moves current forward, and every iteration of the main loop moves
\* current forward or leaves the loop (so that len(source) - current bounds
\* the iterations left).
C24_TokenizeTerminates ==
    /\ [](OffsetsInBounds /\ AdvanceMoves)
    /\ [][Lexing => current' > current \/ ~Lexing']_vars

\* tokenize has returned the tokens of a text with a comment, a run of
\* newlines, an identifier and blanks, having read all of it.
C24_Witness ==
    /\ lexed.kind = "Ok"
    /\ source = <<"/", "/", " ", "c", "\n", "\n", "(", "a", ")", "\t", "[", "]">>
    /\ current = ContentsLen(source)
    /\ Len(tokens) = 8

\* ----------------------------------------------------------------- C25

\* C25 as stated: Display of a Map gives a text for a map of every size, the
\* empty map included: formatting never panics.
C25_DisplayNeverPanics ==
    \A r \in DOMAIN shown :
        shown[r] # Pending =>
            /\ ~IsPanic(shown[r])
            /\ data = ValueMapNew => shown[r] = Text(<<"{", " ", " ", "}">>)

\* ------------------------------------------ Opcode, the table of 8 opcodes

\* enum Opcode of opcode.rs
Opcodes8 ==
    {"Const", "Add", "Sub", "Mul", "Div", "Negate", "SetGlobal", "Halt"}

\* The values of a u8.
Bytes == 0..255

\* From<u8> for Opcode with the arms of 3 and 4 exchanged.
OpcodeFromVal_MulDivSwapped(val) ==
    CASE val = 0 -> "Const"
      [] val = 1 -> "Add"
      [] val = 2 -> "Sub"
      [] val = 3 -> "Div"
      [] val = 4 -> "Mul"
      [] val = 5 -> "Negate"
      [] val = 6 -> "SetGlobal"
      [] val = 7 -> "Halt"
      [] OTHER -> "unreachable!"

\* impl From<Opcode> for u8
U8FromOpcode(opcode) ==
    CASE opcode = "Const" -> 0
      [] opcode = "Add" -> 1
      [] opcode = "Sub" -> 2
      [] opcode = "Mul" -> 3
      [] opcode = "Div" -> 4
      [] opcode = "Negate" -> 5
      [] opcode = "SetGlobal" -> 6
      [] opcode = "Halt" -> 7

\* impl From<u8> for Opcode: `_ => unreachable!()` for a byte above 7.
OpcodeFromVal(val) ==
    CASE val = 0 -> "Const"
      [] val = 1 -> "Add"
      [] val = 2 -> "Sub"
      [] val = 3 -> "Mul"
      [] val = 4 -> "Div"
      [] val = 5 -> "Negate"
      [] val = 6 -> "SetGlobal"
      [] val = 7 -> "Halt"
      [] OTHER -> "unreachable!"

\* A byte to decode, or an opcode to encode.
OpcInit ==
    /\ applied \in {[op |-> "Decode", byte |-> b] : b \in Bytes}
                   \cup {[op |-> "Encode", opcode |-> o] : o \in Opcodes8}
    /\ result = Pending
    /\ VmIdle /\ LexIdle /\ MapIdle /\ CloIdle /\ InsIdle /\ RestIdle

\* Opcode::from(byte)
DecodeByte ==
    /\ UNCHANGED exceptOps
    /\ result = Pending
    /\ applied.op = "Decode"
    /\ result' = IF OpcodeFromVal(applied.byte) = "unreachable!"
                 THEN Panicked("unreachable")
                 ELSE [t |-> "decoded", opcode |-> OpcodeFromVal(applied.byte)]
    /\ UNCHANGED applied

\* u8::from(opcode) of the opcode decoded.
EncodeDecoded ==
    /\ UNCHANGED exceptOps
    /\ result.t = "decoded"
    /\ result' = [t |-> "round trip", opcode |-> result.opcode,
                  byte |-> U8FromOpcode(result.opcode)]
    /\ UNCHANGED applied

\* u8::from(opcode)
EncodeOpcode ==
    /\ UNCHANGED exceptOps
    /\ result = Pending
    /\ applied.op = "Encode"
    /\ result' = [t |-> "encoded", byte |-> U8FromOpcode(applied.opcode)]
    /\ UNCHANGED applied

\* Opcode::from(byte) of the byte encoded.
DecodeEncoded ==
    /\ UNCHANGED exceptOps
    /\ result.t = "encoded"
    /\ result' = IF OpcodeFromVal(result.byte) = "unreachable!"
                 THEN Panicked("unreachable")
                 ELSE [t |-> "round trip", opcode |-> OpcodeFromVal(result.byte),
                       byte |-> result.byte]
    /\ UNCHANGED applied

OpcNext ==
    \/ DecodeByte
    \/ EncodeDecoded
    \/ EncodeOpcode
    \/ DecodeEncoded

SpecOpc == OpcInit /\ [][OpcNext]_vars

\* ----------------------------------------------------------------- C26

\* C26: in the table of 8 opcodes encoding and decoding are inverse to each
\* other and injective: a byte of 0..7 decodes to an opcode that encodes to
\* that byte, an opcode encodes to a byte of 0..7 that decodes to that
\* opcode and that no other opcode encodes to, and decoding a byte above 7
\* reaches unreachable!().
C26_OpcodeRoundTrip ==
    /\ applied.op = "Decode" /\ result # Pending =>
          /\ IsPanic(result) = (applied.byte > 7)
          /\ result.t = "decoded" => result.opcode \in Opcodes8
          /\ result.t = "round trip" => result.byte = applied.byte
    /\ applied.op = "Encode" /\ result # Pending =>
          /\ ~IsPanic(result)
          /\ result.t = "encoded" =>
                /\ result.byte \in 0..7
                /\ \A o \in Opcodes8 \ {applied.opcode} :
                      U8FromOpcode(o) # result.byte
          /\ result.t = "round trip" => result.opcode = applied.opcode

\* Byte 4 has been decoded to Div and Div encoded to 4 again.
C26_Witness ==
    /\ applied = [op |-> "Decode", byte |-> 4]
    /\ result = [t |-> "round trip", opcode |-> "Div", byte |-> 4]

\* ------------------------------------------------------------------- Op

\* enum Op
OpVariants ==
    { "Add", "Subtract", "Multiply", "Divide", "Remainder", "GreaterThan",
      "GreaterThanEquals", "LessThan", "LessThanEquals", "EqualTo", "NotEqual",
      "BitwiseAnd", "BitwiseOr", "BitwiseXor", "Bang" }

\* From<&str> for Op with `<` and `<=` parsed as the lexer types them.
OpFromStr_LessAsGreater(op) ==
    CASE op = <<"+">> -> "Add"
      [] op = <<"-">> -> "Subtract"
      [] op = <<"*">> -> "Multiply"
      [] op = <<"/">> -> "Divide"
      [] op = <<"%">> -> "Remainder"
      [] op = <<">">> -> "GreaterThan"
      [] op = <<">", "=">> -> "GreaterThanEquals"
      [] op = <<"<">> -> "GreaterThan"
      [] op = <<"<", "=">> -> "GreaterThanEquals"
      [] op = <<"=", "=">> -> "EqualTo"
      [] op = <<"!", "=">> -> "NotEqual"
      [] op = <<"&">> -> "BitwiseAnd"
      [] op = <<"|">> -> "BitwiseOr"
      [] op = <<"^">> -> "BitwiseXor"
      [] op = <<"!">> -> "Bang"
      [] OTHER -> "unreachable!"

\* impl From<&str> for Op: `_ => unreachable!()` for any other text.
OpFromStr(op) ==
    CASE op = <<"+">> -> "Add"
      [] op = <<"-">> -> "Subtract"
      [] op = <<"*">> -> "Multiply"
      [] op = <<"/">> -> "Divide"
      [] op = <<"%">> -> "Remainder"
      [] op = <<">">> -> "GreaterThan"
      [] op = <<">", "=">> -> "GreaterThanEquals"
      [] op = <<"<">> -> "LessThan"
      [] op = <<"<", "=">> -> "LessThanEquals"
      [] op = <<"=", "=">> -> "EqualTo"
      [] op = <<"!", "=">> -> "NotEqual"
      [] op = <<"&">> -> "BitwiseAnd"
      [] op = <<"|">> -> "BitwiseOr"
      [] op = <<"^">> -> "BitwiseXor"
      [] op = <<"!">> -> "Bang"
      [] OTHER -> "unreachable!"

\* impl Display for Op
OpToString(op) ==
    CASE op = "Add" -> <<"+">>
      [] op = "Subtract" -> <<"-">>
      [] op = "Multiply" -> <<"*">>
      [] op = "Divide" -> <<"/">>
      [] op = "Remainder" -> <<"%">>
      [] op = "GreaterThan" -> <<">">>
      [] op = "GreaterThanEquals" -> <<">", "=">>
      [] op = "LessThan" -> <<"<">>
      [] op = "LessThanEquals" -> <<"<", "=">>
      [] op = "EqualTo" -> <<"=", "=">>
      [] op = "NotEqual" -> <<"!", "=">>
      [] op = "BitwiseAnd" -> <<"&">>
      [] op = "BitwiseOr" -> <<"|">>
      [] op = "BitwiseXor" -> <<"^">>
      [] op = "Bang" -> <<"!">>

\* The texts parsed: all of one or two of the characters operators are made
\* of, the 15 operators among them.
OperatorChars == {"+", "-", "*", "/", "%", ">", "<", "=", "!", "&", "|", "^"}

OperatorTexts == UNION {[1..n -> OperatorChars] : n \in 1..2}

\* A text to parse, or a variant to print.
OperInit ==
    /\ applied \in {[op |-> "Parse", text |-> s] : s \in OperatorTexts}
                   \cup {[op |-> "Print", variant |-> o] : o \in OpVariants}
    /\ result = Pending
    /\ VmIdle /\ LexIdle /\ MapIdle /\ CloIdle /\ InsIdle /\ RestIdle

\* Op::from(text)
ParseOp ==
    /\ UNCHANGED exceptOps
    /\ result = Pending
    /\ applied.op = "Parse"
    /\ result' = IF OpFromStr(applied.text) = "unreachable!"
                 THEN Panicked("unreachable")
                 ELSE [t |-> "parsed", variant |-> OpFromStr(applied.text)]
    /\ UNCHANGED applied

\* to_string() of the variant parsed.
PrintParsed ==
    /\ UNCHANGED exceptOps
    /\ result.t = "parsed"
    /\ result' = [t |-> "round trip", variant |-> result.variant,
                  text |-> OpToString(result.variant)]
    /\ UNCHANGED applied

\* variant.to_string()
PrintOp ==
    /\ UNCHANGED exceptOps
    /\ result = Pending
    /\ applied.op = "Print"
    /\ result' = [t |-> "printed", text |-> OpToString(applied.variant)]
    /\ UNCHANGED applied

\* Op::from(text) of the text printed.
ParsePrinted ==
    /\ UNCHANGED exceptOps
    /\ result.t = "printed"
    /\ result' = IF OpFromStr(result.text) = "unreachable!"
                 THEN Panicked("unreachable")
                 ELSE [t |-> "round trip", variant |-> OpFromStr(result.text),
                       text |-> result.text]
    /\ UNCHANGED applied

OperNext ==
    \/ ParseOp
    \/ PrintParsed
    \/ PrintOp
    \/ ParsePrinted

SpecOper == OperInit /\ [][OperNext]_vars

\* ----------------------------------------------------------------- C27

\* C27: parsing and printing of operators are inverse to each other: each of
\* the 15 operator texts parses to a variant that prints as that text and
\* that no other operator text parses to, and each Op variant prints as an
\* operator text that parses to that variant.
C27_OpRoundTrip ==
    /\ applied.op = "Parse" /\ applied.text \in OperatorList /\ result # Pending =>
          /\ ~IsPanic(result)
          /\ result.variant \in OpVariants
          /\ \A s \in OperatorList \ {applied.text} : OpFromStr(s) # result.variant
          /\ result.t = "round trip" => result.text = applied.text
    /\ applied.op = "Print" /\ result # Pending =>
          /\ ~IsPanic(result)
          /\ result.text \in OperatorList
          /\ result.t = "round trip" => result.variant = applied.variant

\* `<=` has been parsed to LessThanEquals and printed as `<=` again.
C27_Witness ==
    /\ applied = [op |-> "Parse", text |-> <<"<", "=">>]
    /\ result = [t |-> "round trip", variant |-> "LessThanEquals",
                 text |-> <<"<", "=">>]

=============================================================================
